---- MODULE Spec2Model ----
(***************************************************************************)
(* bincode-json: the Value tree, the serde Serializer that builds it from  *)
(* typed data, the serde Deserializer that drives a typed target's visitor *)
(* from it, and the to_value / from_value / to_vec / from_slice facade.    *)
(*                                                                         *)
(* Integers are kept at their real width as big-endian byte vectors        *)
(* (an i64 is 8 bytes), so `as` casts are sign/zero extension and bit      *)
(* reinterpretation, exactly as in the source.                             *)
(***************************************************************************)
EXTENDS Integers, Sequences, FiniteSets, TLC

(***************************************************************************)
(* Bounds                                                                  *)
(***************************************************************************)
\* longest typed sequence / number of sample elements drawn for a Vec<T>
MaxLen == 2

(***************************************************************************)
(* Results                                                                 *)
(***************************************************************************)
Ok(x) == [ok |-> TRUE, val |-> x]
Err(e) == [ok |-> FALSE, err |-> e]

(***************************************************************************)
(* error.rs: enum Error                                                    *)
(***************************************************************************)
Expected(exp, found) == [e |-> "Expected", exp |-> exp, found |-> found]
Custom(msg) == [e |-> "Custom", msg |-> msg]
Duplicated(name) == [e |-> "Duplicated", name |-> name]
Missing(name) == [e |-> "Missing", name |-> name]
Unknown(name) == [e |-> "Unknown", name |-> name]
Eof == [e |-> "Eof"]
Bincode(inner) == [e |-> "Bincode", inner |-> inner]

(***************************************************************************)
(* value.rs: enum Value                                                    *)
(***************************************************************************)
Null == [tag |-> "Null"]
Boolean(b) == [tag |-> "Boolean", b |-> b]
Blob(bytes) == [tag |-> "Blob", blob |-> bytes]
Array(a) == [tag |-> "Array", a |-> a]
Integer(i) == [tag |-> "Integer", i |-> i]
Float(f) == [tag |-> "Float", f |-> f]
Object(o) == [tag |-> "Object", o |-> o]
String(s) == [tag |-> "String", s |-> s]

\* Map<String, Value> is a set of entries with pairwise distinct keys.
Map_new == {}
Map_insert(m, k, v) == {en \in m : en.k # k} \cup {[k |-> k, v |-> v]}
Map_keys(m) == {en.k : en \in m}
Map_get(m, k) == (CHOOSE en \in m : en.k = k).v

error_description(v) ==
  CASE v.tag = "Null" -> "type null"
    [] v.tag = "Blob" -> "type blob"
    [] v.tag = "Boolean" -> "type boolean"
    [] v.tag = "Integer" -> "type integer"
    [] v.tag = "Float" -> "type float"
    [] v.tag = "Object" -> "type object"
    [] v.tag = "String" -> "type string"
    [] v.tag = "Array" -> "type array"

(***************************************************************************)
(* Fixed-width integers.  A value of width w is a big-endian tuple of      *)
(* w/8 bytes holding its two's-complement bit pattern.                     *)
(***************************************************************************)
Byte == 0..255

\* as_i64 with every source zero-extended, the sign bit not copied
as_i64_zero_extend(signed, bytes) ==
  LET n == Len(bytes)
  IN [j \in 1..8 |-> IF j <= 8 - n THEN 0 ELSE bytes[j - (8 - n)]]
\* `v as i64` for a source integer of the given signedness: sign extension
\* of a signed source, zero extension of an unsigned one, and the unchanged
\* bit pattern when the source is already 64 bits wide.
as_i64(signed, bytes) ==
  LET n == Len(bytes)
      fill == IF signed /\ bytes[1] >= 128 THEN 255 ELSE 0
  IN [j \in 1..8 |-> IF j <= 8 - n THEN fill ELSE bytes[j - (8 - n)]]

\* `v as T` from an i64 to an integer of the given width: truncation.
as_width(i, width) ==
  LET n == width \div 8 IN [j \in 1..n |-> i[j + (8 - n)]]

\* value_from_int!: Self::Integer(i as _)
Value_from_int(signed, bytes) == Integer(as_i64(signed, bytes))

I64IsNeg(i) == i[1] >= 128

\* signed comparison a <= b on i64 bit patterns
RECURSIVE BytesLeFrom(_, _, _)
BytesLeFrom(a, b, j) ==
  IF j > Len(a) THEN TRUE
  ELSE IF a[j] < b[j] THEN TRUE
  ELSE IF a[j] > b[j] THEN FALSE
  ELSE BytesLeFrom(a, b, j + 1)

I64Le(a, b) ==
  IF I64IsNeg(a) # I64IsNeg(b) THEN I64IsNeg(a) ELSE BytesLeFrom(a, b, 1)

\* T::MIN and T::MAX as bit patterns of the type's own width
IntMin(signed, width) ==
  LET n == width \div 8
  IN [j \in 1..n |-> IF signed /\ j = 1 THEN 128 ELSE 0]
IntMax(signed, width) ==
  LET n == width \div 8
  IN [j \in 1..n |-> IF signed /\ j = 1 THEN 127 ELSE 255]

I64Zero == [j \in 1..8 |-> 0]

(***************************************************************************)
(* Option<T> of the Rust side                                              *)
(***************************************************************************)
None_ == [some |-> FALSE]
Some(x) == [some |-> TRUE, x |-> x]

(***************************************************************************)
(* Floats are counted in halves (3 is 1.5): every sample is exact in both  *)
(* f32 and f64, so the widening and narrowing casts keep the number.       *)
(***************************************************************************)
f32_as_f64(v) == v
f64_as_f32(v) == v

\* String::from(char)
String_from_char(c) == c

(***************************************************************************)
(* ser.rs: impl ser::Serializer for Serializer                             *)
(*                                                                         *)
(* A typed value is a record whose `kind` says which Serializer method its *)
(* Serialize implementation calls; Serialize(tv) is `tv.serialize(ser)`.   *)
(***************************************************************************)
RECURSIVE Serialize(_)

serialize_bool(v) == Ok(Boolean(v))
serialize_i64(v) == Ok(Integer(v))
serialize_i8(v) == serialize_i64(as_i64(TRUE, v))
serialize_i16(v) == serialize_i64(as_i64(TRUE, v))
serialize_i32(v) == serialize_i64(as_i64(TRUE, v))
serialize_u8(v) == serialize_i64(as_i64(FALSE, v))
serialize_u16(v) == serialize_i64(as_i64(FALSE, v))
serialize_u32(v) == serialize_i64(as_i64(FALSE, v))
serialize_u64(v) == serialize_i64(as_i64(FALSE, v))
serialize_f64(v) == Ok(Float(v))
serialize_f32(v) == serialize_f64(f32_as_f64(v))
serialize_str(v) == Ok(String(v))
serialize_char(v) == serialize_str(String_from_char(v))
serialize_bytes(v) == Ok(Blob(v))
serialize_none == Ok(Null)
\* serialize_some with the payload put in a one-element Array
serialize_some_wrapped(value) ==
  IF Serialize(value).ok THEN Ok(Array(<<Serialize(value).val>>))
  ELSE Serialize(value)
serialize_some(value) == Serialize(value)
serialize_unit == Ok(Array(<<>>))
serialize_unit_struct == serialize_unit
serialize_unit_variant(variant) == serialize_str(variant)
serialize_newtype_struct(value) == Serialize(value)
serialize_newtype_variant(variant, value) ==
  LET r == Serialize(value)
  IN IF r.ok THEN Ok(Object(Map_insert(Map_new, variant, r.val))) ELSE r
serialize_seq == Ok([inner |-> <<>>])
serialize_tuple == serialize_seq
serialize_tuple_struct == serialize_tuple
serialize_tuple_variant(variant) == Ok([variant |-> variant, inner |-> <<>>])
serialize_map == Ok([inner |-> Map_new, next_key |-> None_])
serialize_struct == Ok([inner |-> Map_new])
serialize_struct_variant(variant) == Ok([variant |-> variant, inner |-> Map_new])
Serializer_is_human_readable == FALSE

\* Result of a `&mut self` method: the serializer afterwards, and the error.
OkSelf(self) == [ok |-> TRUE, self |-> self]
ErrSelf(self, e) == [ok |-> FALSE, self |-> self, err |-> e]

\* impl SerializeSeq / SerializeTuple / SerializeTupleStruct for SeqSerializer
SeqSerializer_serialize_element(self, value) ==
  LET r == Serialize(value)
  IN IF r.ok THEN OkSelf([inner |-> Append(self.inner, r.val)])
     ELSE ErrSelf(self, r.err)
SeqSerializer_end(self) == Ok(Array(self.inner))

\* impl SerializeTupleVariant for SeqVariantSerializer
SeqVariantSerializer_serialize_field(self, value) ==
  LET r == Serialize(value)
  IN IF r.ok THEN OkSelf([self EXCEPT !.inner = Append(self.inner, r.val)])
     ELSE ErrSelf(self, r.err)
SeqVariantSerializer_end(self) ==
  Ok(Object(Map_insert(Map_new, self.variant, Array(self.inner))))

\* serialize_key with a key that is not a String let through
MapSerializer_serialize_key_any(self, key) ==
  LET r == Serialize(key)
  IN IF ~r.ok THEN ErrSelf(self, r.err)
     ELSE IF r.val.tag = "String"
          THEN OkSelf([self EXCEPT !.next_key = Some(r.val.s)])
          ELSE OkSelf([self EXCEPT !.next_key = Some("")])
\* impl SerializeMap for MapSerializer
MapSerializer_serialize_key(self, key) ==
  LET r == Serialize(key)
  IN IF ~r.ok THEN ErrSelf(self, r.err)
     ELSE IF r.val.tag = "String"
          THEN OkSelf([self EXCEPT !.next_key = Some(r.val.s)])
          ELSE ErrSelf(self, Expected("type str", error_description(r.val)))
\* serialize_value that reads the pending key and leaves it in place
MapSerializer_serialize_value_keep_key(self, value) ==
  LET key == IF self.next_key.some THEN self.next_key.x ELSE ""
      r == Serialize(value)
  IN IF r.ok THEN OkSelf([self EXCEPT !.inner = Map_insert(self.inner, key, r.val)])
     ELSE ErrSelf(self, r.err)
MapSerializer_serialize_value(self, value) ==
  LET key == IF self.next_key.some THEN self.next_key.x ELSE ""
      taken == [self EXCEPT !.next_key = None_]
      r == Serialize(value)
  IN IF r.ok THEN OkSelf([taken EXCEPT !.inner = Map_insert(self.inner, key, r.val)])
     ELSE ErrSelf(taken, r.err)
MapSerializer_end(self) == Ok(Object(self.inner))

\* impl SerializeStruct for StructSerializer
StructSerializer_serialize_field(self, key, value) ==
  LET r == Serialize(value)
  IN IF r.ok THEN OkSelf([inner |-> Map_insert(self.inner, key, r.val)])
     ELSE ErrSelf(self, r.err)
StructSerializer_end(self) == Ok(Object(self.inner))

\* impl SerializeStructVariant for StructVariantSerializer
StructVariantSerializer_serialize_field(self, key, value) ==
  LET r == Serialize(value)
  IN IF r.ok THEN OkSelf([self EXCEPT !.inner = Map_insert(self.inner, key, r.val)])
     ELSE ErrSelf(self, r.err)
\* end without the entry that carries the variant name
StructVariantSerializer_end_untagged(self) ==
  Ok(Object(self.inner))
StructVariantSerializer_end(self) ==
  Ok(Object(Map_insert(Map_new, self.variant, Object(self.inner))))

(***************************************************************************)
(* The Serialize implementations of the typed side (serde's impls for the  *)
(* std types and its derive): which Serializer methods are called, in      *)
(* which order, with `?` after each fallible call.                         *)
(***************************************************************************)
serialize_int(signed, width, v) ==
  CASE signed /\ width = 8 -> serialize_i8(v)
    [] signed /\ width = 16 -> serialize_i16(v)
    [] signed /\ width = 32 -> serialize_i32(v)
    [] signed /\ width = 64 -> serialize_i64(v)
    [] ~signed /\ width = 8 -> serialize_u8(v)
    [] ~signed /\ width = 16 -> serialize_u16(v)
    [] ~signed /\ width = 32 -> serialize_u32(v)
    [] ~signed /\ width = 64 -> serialize_u64(v)

RECURSIVE SerializeElements(_, _, _)
SerializeElements(self, elems, j) ==
  IF j > Len(elems) THEN SeqSerializer_end(self)
  ELSE LET r == SeqSerializer_serialize_element(self, elems[j])
       IN IF r.ok THEN SerializeElements(r.self, elems, j + 1) ELSE Err(r.err)

RECURSIVE SerializeVariantFields(_, _, _)
SerializeVariantFields(self, elems, j) ==
  IF j > Len(elems) THEN SeqVariantSerializer_end(self)
  ELSE LET r == SeqVariantSerializer_serialize_field(self, elems[j])
       IN IF r.ok THEN SerializeVariantFields(r.self, elems, j + 1) ELSE Err(r.err)

\* SerializeMap::serialize_entry is serialize_key then serialize_value
RECURSIVE SerializeEntries(_, _, _)
SerializeEntries(self, entries, j) ==
  IF j > Len(entries) THEN MapSerializer_end(self)
  ELSE LET rk == MapSerializer_serialize_key(self, entries[j].key)
       IN IF ~rk.ok THEN Err(rk.err)
          ELSE LET rv == MapSerializer_serialize_value(rk.self, entries[j].val)
               IN IF rv.ok THEN SerializeEntries(rv.self, entries, j + 1)
                  ELSE Err(rv.err)

RECURSIVE SerializeStructFields(_, _, _)
SerializeStructFields(self, fields, j) ==
  IF j > Len(fields) THEN StructSerializer_end(self)
  ELSE LET r == StructSerializer_serialize_field(self, fields[j].name, fields[j].val)
       IN IF r.ok THEN SerializeStructFields(r.self, fields, j + 1) ELSE Err(r.err)

RECURSIVE SerializeStructVariantFields(_, _, _)
SerializeStructVariantFields(self, fields, j) ==
  IF j > Len(fields) THEN StructVariantSerializer_end(self)
  ELSE LET r == StructVariantSerializer_serialize_field(self, fields[j].name, fields[j].val)
       IN IF r.ok THEN SerializeStructVariantFields(r.self, fields, j + 1)
          ELSE Err(r.err)

\* Display of an Ipv4Addr given its four u8 octets
Ipv4Display(octets) ==
  ToString(octets[1].bytes[1]) \o "." \o ToString(octets[2].bytes[1]) \o "."
    \o ToString(octets[3].bytes[1]) \o "." \o ToString(octets[4].bytes[1])

Serialize(tv) ==
  CASE tv.kind = "bool" -> serialize_bool(tv.b)
    [] tv.kind = "ipv4" ->
         \* serde's impl for Ipv4Addr: the text when the serializer is
         \* human readable, the [u8; 4] of octets (a tuple) otherwise
         IF Serializer_is_human_readable THEN serialize_str(Ipv4Display(tv.a))
         ELSE SerializeElements(serialize_tuple.val, tv.a, 1)
    [] tv.kind = "int" -> serialize_int(tv.signed, tv.width, tv.bytes)
    [] tv.kind = "f32" -> serialize_f32(tv.f)
    [] tv.kind = "f64" -> serialize_f64(tv.f)
    [] tv.kind = "char" -> serialize_char(tv.c)
    [] tv.kind = "str" -> serialize_str(tv.s)
    [] tv.kind = "none" -> serialize_none
    [] tv.kind = "some" -> serialize_some(tv.x)
    [] tv.kind = "unit" -> serialize_unit
    [] tv.kind = "unit_struct" -> serialize_unit_struct
    [] tv.kind = "newtype_struct" -> serialize_newtype_struct(tv.x)
    [] tv.kind = "seq" -> SerializeElements(serialize_seq.val, tv.a, 1)
    [] tv.kind = "tuple" -> SerializeElements(serialize_tuple.val, tv.a, 1)
    [] tv.kind = "map" -> SerializeEntries(serialize_map.val, tv.m, 1)
    [] tv.kind = "struct" -> SerializeStructFields(serialize_struct.val, tv.fields, 1)
    [] tv.kind = "unit_variant" -> serialize_unit_variant(tv.variant)
    [] tv.kind = "newtype_variant" -> serialize_newtype_variant(tv.variant, tv.x)
    [] tv.kind = "tuple_variant" ->
         SerializeVariantFields(serialize_tuple_variant(tv.variant).val, tv.a, 1)
    [] tv.kind = "struct_variant" ->
         SerializeStructVariantFields(serialize_struct_variant(tv.variant).val, tv.fields, 1)

\* lib.rs
to_value(val) == Serialize(val)

(***************************************************************************)
(* Iteration order of std::collections::HashMap (value.rs: type Map).      *)
(* The order is not fixed by the program; it is drawn by `hashOrder`:      *)
(* the entries in key order, rotated by hashOrder.rot and reversed when    *)
(* hashOrder.rev (every order of up to three entries is produced).         *)
(***************************************************************************)
VARIABLE hashOrder

\* the strings of the model, in lexicographic order
KeyOrder == <<"", "A", "Move", "Pair", "Quit", "Wrap", "a", "b", "id", "name", "x", "y">>
KeyRank(s) == CHOOSE j \in 1..Len(KeyOrder) : KeyOrder[j] = s

RECURSIVE SortedEntries(_)
SortedEntries(m) ==
  IF m = {} THEN <<>>
  ELSE LET first == CHOOSE en \in m : \A o \in m : KeyRank(en.k) <= KeyRank(o.k)
       IN <<first>> \o SortedEntries(m \ {first})

Rotate(sq, r) ==
  LET n == Len(sq)
  IN [j \in 1..n |-> sq[((j - 1 + r) % n) + 1]]
Reverse(sq) ==
  LET n == Len(sq)
  IN [j \in 1..n |-> sq[n + 1 - j]]

Map_into_iter(m) ==
  LET sorted == SortedEntries(m)
      rotated == IF m = {} THEN sorted ELSE Rotate(sorted, hashOrder.rot)
  IN IF hashOrder.rev THEN Reverse(rotated) ELSE rotated

(***************************************************************************)
(* de.rs.  A Deserializer method ends by calling one method of the         *)
(* visitor it was given, or by returning an error without calling it; the  *)
(* operators below return that call (or the error) as a record, and        *)
(* Visit(T, call) further down is the visitor of the typed target T.       *)
(***************************************************************************)
visit_none == [call |-> "visit_none"]
visit_unit == [call |-> "visit_unit"]
visit_bool(b) == [call |-> "visit_bool", b |-> b]
visit_byte_buf(b) == [call |-> "visit_byte_buf", blob |-> b]
visit_i64(i) == [call |-> "visit_i64", i |-> i]
visit_f64(f) == [call |-> "visit_f64", f |-> f]
visit_string(s) == [call |-> "visit_string", s |-> s]
visit_seq(access) == [call |-> "visit_seq", seq |-> access]
visit_map(access) == [call |-> "visit_map", map |-> access]
visit_some(de) == [call |-> "visit_some", de |-> de]
visit_newtype_struct(de) == [call |-> "visit_newtype_struct", de |-> de]
visit_enum(access) == [call |-> "visit_enum", en |-> access]
NoVisit(e) == [call |-> "none", err |-> e]

\* impl From<Value> for Deserializer
Deserializer_from(value) == [value |-> Some(value)]
\* impl Deserializer for Deserializer has no is_human_readable: the
\* trait's provided method answers true
Deserializer_is_human_readable == TRUE

\* deserialize_any with Null announced as unit
deserialize_any_null_as_unit(self) ==
  IF ~self.value.some THEN NoVisit(Eof)
  ELSE LET v == self.value.x
       IN CASE v.tag = "Null" -> visit_unit
            [] v.tag = "Boolean" -> visit_bool(v.b)
            [] v.tag = "Blob" -> visit_byte_buf(v.blob)
            [] v.tag = "Array" -> visit_seq([iter |-> v.a, len |-> Len(v.a)])
            [] v.tag = "Integer" -> visit_i64(v.i)
            [] v.tag = "Float" -> visit_f64(v.f)
            [] v.tag = "Object" ->
                 visit_map([iter |-> Map_into_iter(v.o), value |-> None_,
                            len |-> Cardinality(v.o)])
            [] v.tag = "String" -> visit_string(v.s)
\* Deserializer::deserialize_any
deserialize_any(self) ==
  IF ~self.value.some THEN NoVisit(Eof)
  ELSE LET v == self.value.x
       IN CASE v.tag = "Null" -> visit_none
            [] v.tag = "Boolean" -> visit_bool(v.b)
            [] v.tag = "Blob" -> visit_byte_buf(v.blob)
            [] v.tag = "Array" -> visit_seq([iter |-> v.a, len |-> Len(v.a)])
            [] v.tag = "Integer" -> visit_i64(v.i)
            [] v.tag = "Float" -> visit_f64(v.f)
            [] v.tag = "Object" ->
                 visit_map([iter |-> Map_into_iter(v.o), value |-> None_,
                            len |-> Cardinality(v.o)])
            [] v.tag = "String" -> visit_string(v.s)

\* deserialize_option without the arm for Null
deserialize_option_always_some(self) ==
  IF ~self.value.some THEN NoVisit(Eof)
  ELSE visit_some(self)
\* Deserializer::deserialize_option
deserialize_option(self) ==
  IF ~self.value.some THEN NoVisit(Eof)
  ELSE IF self.value.x.tag = "Null" THEN visit_none
  ELSE visit_some(self)

\* deserialize_enum without the test for a second key
deserialize_enum_first_key(self) ==
  IF ~self.value.some THEN NoVisit(Eof)
  ELSE LET v == self.value.x
       IN CASE v.tag = "Object" ->
                 LET iter == Map_into_iter(v.o)
                 IN IF Len(iter) = 0
                    THEN NoVisit(Expected("variant name", "empty object"))
                    ELSE visit_enum([val |-> String(iter[1].k),
                                     deserializer |-> [val |-> Some(iter[1].v)]])
            [] v.tag = "String" ->
                 visit_enum([val |-> String(v.s), deserializer |-> [val |-> None_]])
            [] OTHER ->
                 NoVisit(Expected(error_description(v), "expected an enum"))
\* Deserializer::deserialize_enum
deserialize_enum(self) ==
  IF ~self.value.some THEN NoVisit(Eof)
  ELSE LET v == self.value.x
       IN CASE v.tag = "Object" ->
                 LET iter == Map_into_iter(v.o)
                 IN IF Len(iter) = 0
                    THEN NoVisit(Expected("variant name", "empty object"))
                    ELSE IF Len(iter) >= 2
                    THEN NoVisit(Expected("map with a single key",
                                          "extra key \"" \o iter[2].k \o "\""))
                    ELSE visit_enum([val |-> String(iter[1].k),
                                     deserializer |-> [val |-> Some(iter[1].v)]])
            [] v.tag = "String" ->
                 visit_enum([val |-> String(v.s), deserializer |-> [val |-> None_]])
            [] OTHER ->
                 NoVisit(Expected(error_description(v), "expected an enum"))

\* Deserializer::deserialize_newtype_struct
deserialize_newtype_struct(self) == visit_newtype_struct(self)

\* forward_to_deserialize!: every other method is deserialize_any
forward_to_deserialize(self) == deserialize_any(self)

\* impl Deserializer for SeqDeserializer
SeqDeserializer_deserialize_any(self) ==
  IF self.len = 0 THEN visit_unit ELSE visit_seq(self)
SeqDeserializer_size_hint(self) == Some(self.len)

\* impl Deserializer for MapDeserializer
MapDeserializer_deserialize_any(self) == visit_map(self)
MapDeserializer_size_hint(self) == Some(self.len)

(***************************************************************************)
(* Display of numbers in error texts (Rust's `{}` for i64, usize, f64)     *)
(***************************************************************************)
RECURSIVE DivStep10(_, _, _, _)
DivStep10(bytes, j, rem, acc) ==
  IF j > Len(bytes) THEN [q |-> acc, r |-> rem]
  ELSE LET cur == rem * 256 + bytes[j]
       IN DivStep10(bytes, j + 1, cur % 10, Append(acc, cur \div 10))

RECURSIVE DecDigits(_)
DecDigits(bytes) ==
  IF \A j \in 1..Len(bytes) : bytes[j] = 0 THEN ""
  ELSE LET d == DivStep10(bytes, 1, 0, <<>>)
       IN DecDigits(d.q) \o ToString(d.r)

display_u64(bytes) ==
  IF \A j \in 1..Len(bytes) : bytes[j] = 0 THEN "0" ELSE DecDigits(bytes)

\* two's complement negation of an 8-byte pattern
RECURSIVE NegateFrom(_, _, _)
NegateFrom(bytes, j, carry) ==
  IF j = 0 THEN <<>>
  ELSE LET t == (255 - bytes[j]) + carry
       IN Append(NegateFrom(bytes, j - 1, t \div 256), t % 256)

display_i64(i) ==
  IF I64IsNeg(i) THEN "-" \o display_u64(NegateFrom(i, 8, 1)) ELSE display_u64(i)

display_usize(n) == ToString(n)

\* a float counted in halves, printed with its decimal point
display_f64(h) ==
  LET mag == IF h < 0 THEN -h ELSE h
  IN (IF h < 0 THEN "-" ELSE "") \o ToString(mag \div 2)
     \o (IF mag % 2 = 1 THEN ".5" ELSE ".0")

\* `v as f64` for an i64 whose magnitude is below 2^23
i64_as_f64(i) ==
  CASE \A j \in 1..5 : i[j] = 0 -> 2 * (i[6] * 65536 + i[7] * 256 + i[8])
    [] \A j \in 1..5 : i[j] = 255 ->
         2 * ((i[6] * 65536 + i[7] * 256 + i[8]) - 16777216)

\* String::from_utf8 on the byte strings of the model: one ASCII letter
from_utf8(bytes) ==
  IF bytes = <<97>> THEN Some("a")
  ELSE IF bytes = <<98>> THEN Some("b")
  ELSE IF bytes = <<>> THEN Some("")
  ELSE None_

(***************************************************************************)
(* error.rs: impl serde::de::Error for Error.  `unexp` and `exp` are the   *)
(* Display texts of serde's Unexpected and of the visitor's `expecting`.   *)
(***************************************************************************)
invalid_type(unexp, exp) == Expected(exp, unexp)
invalid_value(unexp, exp) == Expected(exp, unexp)
invalid_length(len, exp) == Expected("length " \o display_usize(len), exp)
unknown_variant(variant) == Unknown(variant)
unknown_field(field) == Unknown(field)
missing_field(field) == Missing(field)
duplicate_field(field) == Duplicated(field)

\* serde quotes the offending scalar between two grave accents (U+0060),
\* a character a TLA+ string cannot hold; it is written as an apostrophe.
Quoted(text) == "'" \o text \o "'"

\* What a visitor that does not implement the called method reports:
\* the Display of serde::de::Unexpected for that call.
Unexpected(c) ==
  CASE c.call = "visit_bool" -> "boolean " \o Quoted(IF c.b THEN "true" ELSE "false")
    [] c.call = "visit_i64" -> "integer " \o Quoted(display_i64(c.i))
    [] c.call = "visit_f64" -> "floating point " \o Quoted(display_f64(c.f))
    [] c.call = "visit_string" -> "string \"" \o c.s \o "\""
    [] c.call = "visit_byte_buf" -> "byte array"
    [] c.call = "visit_none" -> "Option value"
    [] c.call = "visit_some" -> "Option value"
    [] c.call = "visit_unit" -> "unit value"
    [] c.call = "visit_newtype_struct" -> "newtype struct"
    [] c.call = "visit_seq" -> "sequence"
    [] c.call = "visit_map" -> "map"
    [] c.call = "visit_enum" -> "enum"

(***************************************************************************)
(* Typed targets.  A type descriptor says which Deserializer method the    *)
(* target's Deserialize implementation calls and how its visitor answers.  *)
(***************************************************************************)
TBool == [t |-> "bool"]
TInt(signed, width) == [t |-> "int", signed |-> signed, width |-> width]
TF32 == [t |-> "f32"]
TF64 == [t |-> "f64"]
TChar == [t |-> "char"]
TString == [t |-> "string"]
TUnit == [t |-> "unit"]
TUnitStruct(name) == [t |-> "unit_struct", name |-> name]
TNewtypeStruct(name, of) == [t |-> "newtype_struct", name |-> name, of |-> of]
TOption(of) == [t |-> "option", of |-> of]
TSeq(of) == [t |-> "seq", of |-> of]
TTuple(elems) == [t |-> "tuple", elems |-> elems]
TMap(key, of) == [t |-> "map", key |-> key, of |-> of]
TStruct(name, fields) == [t |-> "struct", name |-> name, fields |-> fields]
TEnum(name, variants) == [t |-> "enum", name |-> name, variants |-> variants]
TValue == [t |-> "value"]
TIpv4 == [t |-> "ipv4"]
TIgnoredAny == [t |-> "ignored_any"]
TFieldIdentifier(fields) == [t |-> "field_identifier", fields |-> fields]
TVariantIdentifier(variants) == [t |-> "variant_identifier", variants |-> variants]

Field(name, ty) == [name |-> name, ty |-> ty]
UnitVariant(name) == [name |-> name, kind |-> "unit"]
NewtypeVariant(name, of) == [name |-> name, kind |-> "newtype", of |-> of]
TupleVariant(name, elems) == [name |-> name, kind |-> "tuple", elems |-> elems]
StructVariant(name, fields) == [name |-> name, kind |-> "struct", fields |-> fields]

IntTypeName(T) == (IF T.signed THEN "i" ELSE "u") \o ToString(T.width)
Elements(n) == ToString(n) \o (IF n = 1 THEN " element" ELSE " elements")

\* Visitor::expecting of the target's visitor
expecting(T) ==
  CASE T.t = "bool" -> "a boolean"
    [] T.t = "int" -> IntTypeName(T)
    [] T.t = "f32" -> "f32"
    [] T.t = "f64" -> "f64"
    [] T.t = "char" -> "a character"
    [] T.t = "string" -> "a string"
    [] T.t = "unit" -> "unit"
    [] T.t = "unit_struct" -> "unit struct " \o T.name
    [] T.t = "newtype_struct" -> "tuple struct " \o T.name
    [] T.t = "option" -> "option"
    [] T.t = "seq" -> "a sequence"
    [] T.t = "tuple" -> "a tuple of size " \o ToString(Len(T.elems))
    [] T.t = "map" -> "a map"
    [] T.t = "struct" -> "struct " \o T.name
    [] T.t = "enum" -> "enum " \o T.name
    [] T.t = "value" -> "a Bincode JSON value"
    [] T.t = "ignored_any" -> "anything at all"
    [] T.t = "field_identifier" -> "field identifier"
    [] T.t = "variant_identifier" -> "variant identifier"
    [] T.t = "ipv4" -> "IPv4 address"

(***************************************************************************)
(* de.rs: the access objects handed to visitors.  Deserialize(T, de) is    *)
(* `T::deserialize(de)` (a seed is the type it deserializes).              *)
(***************************************************************************)
RECURSIVE Deserialize(_, _)

OkSelfVal(self, x) == [ok |-> TRUE, self |-> self, val |-> x]

\* next_element_seed with len left as it was
SeqDeserializer_next_element_seed_no_count(self, seed) ==
  IF self.iter = <<>> THEN OkSelfVal(self, None_)
  ELSE LET value == Head(self.iter)
           after == [iter |-> Tail(self.iter), len |-> self.len]
           r == Deserialize(seed, Deserializer_from(value))
       IN IF r.ok THEN OkSelfVal(after, Some(r.val)) ELSE ErrSelf(after, r.err)
\* impl SeqAccess for SeqDeserializer
SeqDeserializer_next_element_seed(self, seed) ==
  IF self.iter = <<>> THEN OkSelfVal(self, None_)
  ELSE LET value == Head(self.iter)
           after == [iter |-> Tail(self.iter), len |-> self.len - 1]
           r == Deserialize(seed, Deserializer_from(value))
       IN IF r.ok THEN OkSelfVal(after, Some(r.val)) ELSE ErrSelf(after, r.err)

\* impl MapAccess for MapDeserializer
MapDeserializer_next_key_seed(self, seed) ==
  IF self.iter = <<>> THEN OkSelfVal(self, None_)
  ELSE LET en == Head(self.iter)
           after == [iter |-> Tail(self.iter), value |-> Some(en.v),
                     len |-> self.len - 1]
           r == Deserialize(seed, Deserializer_from(String(en.k)))
       IN IF r.ok THEN OkSelfVal(after, Some(r.val)) ELSE ErrSelf(after, r.err)

\* next_value_seed with the staged value read but left in place
MapDeserializer_next_value_seed_keep(self, seed) ==
  IF ~self.value.some THEN ErrSelf(self, Eof)
  ELSE LET r == Deserialize(seed, Deserializer_from(self.value.x))
       IN IF r.ok THEN OkSelfVal(self, r.val) ELSE ErrSelf(self, r.err)
MapDeserializer_next_value_seed(self, seed) ==
  IF ~self.value.some THEN ErrSelf(self, Eof)
  ELSE LET after == [self EXCEPT !.value = None_]
           r == Deserialize(seed, Deserializer_from(self.value.x))
       IN IF r.ok THEN OkSelfVal(after, r.val) ELSE ErrSelf(after, r.err)

\* impl EnumAccess for EnumDeserializer
EnumDeserializer_variant_seed(self, seed) ==
  LET r == Deserialize(seed, Deserializer_from(self.val))
  IN IF r.ok THEN [ok |-> TRUE, val |-> r.val, variant |-> self.deserializer]
     ELSE Err(r.err)

\* impl VariantAccess for VariantDeserializer
\* unit_variant with a payload that is present refused
VariantDeserializer_unit_variant_strict(self) ==
  IF ~self.val.some THEN Ok([kind |-> "unit"])
  ELSE Err(Expected("unit variant", error_description(self.val.x)))
VariantDeserializer_unit_variant(self) ==
  IF ~self.val.some THEN Ok([kind |-> "unit"])
  ELSE LET r == Deserialize(TValue, Deserializer_from(self.val.x))
       IN IF r.ok THEN Ok([kind |-> "unit"]) ELSE Err(r.err)

VariantDeserializer_newtype_variant_seed(self, seed) ==
  IF ~self.val.some THEN Err(Eof)
  ELSE Deserialize(seed, Deserializer_from(self.val.x))

\* tuple_variant with a payload that is not an Array decoded as it is
VariantDeserializer_tuple_variant_any(self) ==
  IF ~self.val.some THEN NoVisit(Eof)
  ELSE LET other == self.val.x
       IN IF other.tag = "Array"
          THEN SeqDeserializer_deserialize_any(
                 [iter |-> other.a, len |-> Len(other.a)])
          ELSE deserialize_any(Deserializer_from(other))
VariantDeserializer_tuple_variant(self) ==
  IF ~self.val.some THEN NoVisit(Eof)
  ELSE LET other == self.val.x
       IN IF other.tag = "Array"
          THEN SeqDeserializer_deserialize_any(
                 [iter |-> other.a, len |-> Len(other.a)])
          ELSE NoVisit(Expected(error_description(other), "expected a tuple"))

VariantDeserializer_struct_variant(self) ==
  IF ~self.val.some THEN NoVisit(Eof)
  ELSE LET other == self.val.x
       IN IF other.tag = "Object"
          THEN MapDeserializer_deserialize_any(
                 [iter |-> Map_into_iter(other.o), value |-> None_,
                  len |-> Cardinality(other.o)])
          ELSE NoVisit(Expected(error_description(other), "expected a struct"))

(***************************************************************************)
(* The visitors of the typed targets (serde's impls for the std types, its *)
(* derive for structs and enums, and value.rs's Visitor for Value).        *)
(***************************************************************************)
\* Vec<T>: next_element until the access is exhausted
RECURSIVE VisitSeqOf(_, _, _)
VisitSeqOf(of, access, acc) ==
  LET r == SeqDeserializer_next_element_seed(access, of)
  IN IF ~r.ok THEN Err(r.err)
     ELSE IF ~r.val.some THEN Ok(acc)
     ELSE VisitSeqOf(of, r.self, Append(acc, r.val.x))

\* tuples, tuple variants, and structs read from a sequence: one
\* next_element per declared position, invalid_length when one is missing
RECURSIVE VisitSeqFields(_, _, _, _, _)
VisitSeqFields(tys, access, j, acc, exp) ==
  IF j > Len(tys) THEN Ok(acc)
  ELSE LET r == SeqDeserializer_next_element_seed(access, tys[j])
       IN IF ~r.ok THEN Err(r.err)
          ELSE IF ~r.val.some THEN Err(invalid_length(j - 1, exp))
          ELSE VisitSeqFields(tys, r.self, j + 1, Append(acc, r.val.x), exp)

\* maps: next_entry (next_key then next_value) until exhausted
RECURSIVE VisitMapEntries(_, _, _, _)
VisitMapEntries(key, of, access, acc) ==
  LET rk == MapDeserializer_next_key_seed(access, key)
  IN IF ~rk.ok THEN Err(rk.err)
     ELSE IF ~rk.val.some THEN Ok(acc)
     ELSE LET rv == MapDeserializer_next_value_seed(rk.self, of)
          IN IF ~rv.ok THEN Err(rv.err)
             ELSE VisitMapEntries(key, of, rv.self,
                    {en \in acc : en.key # rk.val.x}
                      \cup {[key |-> rk.val.x, val |-> rv.val]})

\* BTreeMap iteration: entries in key order
RECURSIVE TypedKeyRank(_)
TypedKeyRank(key) ==
  CASE key.kind = "str" -> KeyRank(key.s)
    [] key.kind = "char" -> KeyRank(key.c)
    [] key.kind = "none" -> 0
    [] key.kind = "some" -> TypedKeyRank(key.x)
RECURSIVE BTreeMap_iter(_)
BTreeMap_iter(m) ==
  IF m = {} THEN <<>>
  ELSE LET first == CHOOSE en \in m :
                      \A o \in m : TypedKeyRank(en.key) <= TypedKeyRank(o.key)
       IN <<first>> \o BTreeMap_iter(m \ {first})

\* derived struct visitor, visit_map: known fields fill their slot (a slot
\* filled twice is duplicate_field), unknown fields are read as IgnoredAny
RECURSIVE VisitMapFields(_, _, _)
VisitMapFields(fields, access, slots) ==
  LET rk == MapDeserializer_next_key_seed(access, TFieldIdentifier(fields))
  IN IF ~rk.ok THEN Err(rk.err)
     ELSE IF ~rk.val.some THEN Ok(slots)
     ELSE LET idx == rk.val.x.idx
          IN IF idx = 0
             THEN LET rv == MapDeserializer_next_value_seed(rk.self, TIgnoredAny)
                  IN IF ~rv.ok THEN Err(rv.err)
                     ELSE VisitMapFields(fields, rv.self, slots)
             ELSE IF slots[idx].some THEN Err(duplicate_field(fields[idx].name))
             ELSE LET rv == MapDeserializer_next_value_seed(rk.self, fields[idx].ty)
                  IN IF ~rv.ok THEN Err(rv.err)
                     ELSE VisitMapFields(fields, rv.self,
                            [slots EXCEPT ![idx] = Some(rv.val)])

\* after the loop: a slot left empty is missing_field, except that an
\* Option field is absent
RECURSIVE FinishFields(_, _, _, _)
FinishFields(fields, slots, j, acc) ==
  IF j > Len(fields) THEN Ok(acc)
  ELSE IF slots[j].some
       THEN FinishFields(fields, slots, j + 1,
              Append(acc, [name |-> fields[j].name, val |-> slots[j].x]))
  ELSE IF fields[j].ty.t = "option"
       THEN FinishFields(fields, slots, j + 1,
              Append(acc, [name |-> fields[j].name, val |-> [kind |-> "none"]]))
  ELSE Err(missing_field(fields[j].name))

FieldTypes(fields) == [j \in 1..Len(fields) |-> fields[j].ty]
NamedFields(fields, vals) ==
  [j \in 1..Len(fields) |-> [name |-> fields[j].name, val |-> vals[j]]]

\* the fields of a struct or struct variant, from visit_map or visit_seq
VisitFields(fields, c, exp) ==
  CASE c.call = "visit_map" ->
         LET r == VisitMapFields(fields, c.map, [j \in 1..Len(fields) |-> None_])
         IN IF r.ok THEN FinishFields(fields, r.val, 1, <<>>) ELSE r
    [] c.call = "visit_seq" ->
         LET r == VisitSeqFields(FieldTypes(fields), c.seq, 1, <<>>,
                    exp \o " with " \o Elements(Len(fields)))
         IN IF r.ok THEN Ok(NamedFields(fields, r.val)) ELSE r
    [] OTHER -> Err(invalid_type(Unexpected(c), exp))

\* position of a name among the declared fields / variants, 0 when absent
IndexOfName(decls, name) ==
  IF \E j \in 1..Len(decls) : decls[j].name = name
  THEN CHOOSE j \in 1..Len(decls) : decls[j].name = name
  ELSE 0

\* impl_deserialize_num!: visit_i64 of the integer visitors (int_to_int,
\* int_to_uint, num_self) and the default methods for every other call
VisitInt(T, c) ==
  IF c.call # "visit_i64" THEN Err(invalid_type(Unexpected(c), expecting(T)))
  ELSE LET v == c.i
           min == as_i64(T.signed, IntMin(T.signed, T.width))
           max == as_i64(T.signed, IntMax(T.signed, T.width))
           fits == IF T.signed /\ T.width = 64 THEN TRUE
                   ELSE IF T.signed THEN I64Le(min, v) /\ I64Le(v, max)
                   ELSE I64Le(I64Zero, v) /\ BytesLeFrom(v, as_i64(FALSE, IntMax(FALSE, T.width)), 1)
       IN IF fits
          THEN Ok([kind |-> "int", signed |-> T.signed, width |-> T.width,
                   bytes |-> as_width(v, T.width)])
          ELSE Err(invalid_value(Unexpected(c), expecting(T)))

\* value.rs: impl de::Visitor for Visitor (the target is Value itself)
VisitValue(c) ==
  CASE c.call = "visit_none" -> Ok([kind |-> "value", v |-> Null])
    [] c.call = "visit_unit" -> Ok([kind |-> "value", v |-> Array(<<>>)])
    [] c.call = "visit_bool" -> Ok([kind |-> "value", v |-> Boolean(c.b)])
    [] c.call = "visit_byte_buf" -> Ok([kind |-> "value", v |-> Blob(c.blob)])
    [] c.call = "visit_i64" -> Ok([kind |-> "value", v |-> Integer(c.i)])
    [] c.call = "visit_f64" -> Ok([kind |-> "value", v |-> Float(c.f)])
    [] c.call = "visit_string" -> Ok([kind |-> "value", v |-> String(c.s)])
    [] c.call = "visit_some" -> Deserialize(TValue, c.de)
    [] c.call = "visit_newtype_struct" -> Deserialize(TValue, c.de)
    [] c.call = "visit_seq" ->
         LET r == VisitSeqOf(TValue, c.seq, <<>>)
         IN IF r.ok
            THEN Ok([kind |-> "value",
                     v |-> Array([j \in 1..Len(r.val) |-> r.val[j].v])])
            ELSE r
    [] c.call = "visit_map" ->
         LET r == VisitMapEntries(TString, TValue, c.map, {})
         IN IF r.ok
            THEN Ok([kind |-> "value",
                     v |-> Object({[k |-> en.key.s, v |-> en.val.v] : en \in r.val})])
            ELSE r
    [] OTHER -> Err(invalid_type(Unexpected(c), expecting(TValue)))

\* derived enum visitor, visit_enum: the variant identifier, then the
\* VariantAccess method of the variant's kind
VisitEnum(T, access) ==
  LET rv == EnumDeserializer_variant_seed(access, TVariantIdentifier(T.variants))
  IN IF ~rv.ok THEN Err(rv.err)
     ELSE LET var == T.variants[rv.val.idx]
              va == rv.variant
              full == T.name \o "::" \o var.name
          IN CASE var.kind = "unit" ->
                    LET r == VariantDeserializer_unit_variant(va)
                    IN IF r.ok
                       THEN Ok([kind |-> "unit_variant", variant |-> var.name])
                       ELSE r
               [] var.kind = "newtype" ->
                    LET r == VariantDeserializer_newtype_variant_seed(va, var.of)
                    IN IF r.ok
                       THEN Ok([kind |-> "newtype_variant", variant |-> var.name,
                                x |-> r.val])
                       ELSE r
               [] var.kind = "tuple" ->
                    LET c == VariantDeserializer_tuple_variant(va)
                        exp == "tuple variant " \o full
                        r == VisitSeqFields(var.elems, c.seq, 1, <<>>,
                               exp \o " with " \o Elements(Len(var.elems)))
                    IN IF c.call = "none" THEN Err(c.err)
                       ELSE IF c.call # "visit_seq"
                       THEN Err(invalid_type(Unexpected(c), exp))
                       ELSE IF r.ok
                       THEN Ok([kind |-> "tuple_variant", variant |-> var.name,
                                a |-> r.val])
                       ELSE r
               [] var.kind = "struct" ->
                    LET c == VariantDeserializer_struct_variant(va)
                        r == VisitFields(var.fields, c, "struct variant " \o full)
                    IN IF c.call = "none" THEN Err(c.err)
                       ELSE IF r.ok
                       THEN Ok([kind |-> "struct_variant", variant |-> var.name,
                                fields |-> r.val])
                       ELSE r

\* the visitor of target T receiving call c
\* the addresses of the model, and <Ipv4Addr as FromStr>::from_str on
\* the strings of the model
Ipv4Octets == {<<127, 0, 0, 1>>, <<10, 0, 0, 255>>}
Ipv4Samples ==
  {[kind |-> "ipv4",
    a |-> [j \in 1..4 |-> [kind |-> "int", signed |-> FALSE, width |-> 8,
                            bytes |-> <<o[j]>>]]] : o \in Ipv4Octets}
Ipv4Addr_from_str(s) ==
  IF \E v \in Ipv4Samples : Ipv4Display(v.a) = s
  THEN Ok(CHOOSE v \in Ipv4Samples : Ipv4Display(v.a) = s)
  ELSE Err(Custom("invalid IPv4 address syntax"))

\* serde's impl for Ipv4Addr: FromStrVisitor through deserialize_str when
\* the deserializer is human readable, [u8; 4] through deserialize_tuple
\* otherwise
VisitIpv4(T, c) ==
  IF Deserializer_is_human_readable
  THEN IF c.call = "visit_string" THEN Ipv4Addr_from_str(c.s)
       ELSE Err(invalid_type(Unexpected(c), expecting(T)))
  ELSE IF c.call # "visit_seq"
       THEN Err(invalid_type(Unexpected(c), "an array of length 4"))
       ELSE LET r == VisitSeqFields([j \in 1..4 |-> TInt(FALSE, 8)], c.seq, 1, <<>>,
                                    "an array of length 4")
            IN IF r.ok THEN Ok([kind |-> "ipv4", a |-> r.val]) ELSE r

Visit(T, c) ==
  IF c.call = "none" THEN Err(c.err)
  ELSE CASE T.t = "ipv4" -> VisitIpv4(T, c)
         [] T.t = "bool" ->
              IF c.call = "visit_bool" THEN Ok([kind |-> "bool", b |-> c.b])
              ELSE Err(invalid_type(Unexpected(c), expecting(T)))
         [] T.t = "int" -> VisitInt(T, c)
         [] T.t \in {"f32", "f64"} ->
              CASE c.call = "visit_f64" ->
                     Ok([kind |-> T.t,
                         f |-> IF T.t = "f32" THEN f64_as_f32(c.f) ELSE c.f])
                [] c.call = "visit_i64" -> Ok([kind |-> T.t, f |-> i64_as_f64(c.i)])
                [] OTHER -> Err(invalid_type(Unexpected(c), expecting(T)))
         [] T.t = "char" ->
              IF c.call # "visit_string"
              THEN Err(invalid_type(Unexpected(c), expecting(T)))
              ELSE IF Len(c.s) = 1 THEN Ok([kind |-> "char", c |-> c.s])
              ELSE Err(invalid_value(Unexpected(c), expecting(T)))
         [] T.t = "string" ->
              CASE c.call = "visit_string" -> Ok([kind |-> "str", s |-> c.s])
                [] c.call = "visit_byte_buf" ->
                     IF from_utf8(c.blob).some
                     THEN Ok([kind |-> "str", s |-> from_utf8(c.blob).x])
                     ELSE Err(invalid_value(Unexpected(c), expecting(T)))
                [] OTHER -> Err(invalid_type(Unexpected(c), expecting(T)))
         [] T.t = "unit" ->
              IF c.call = "visit_unit" THEN Ok([kind |-> "unit"])
              ELSE Err(invalid_type(Unexpected(c), expecting(T)))
         [] T.t = "unit_struct" ->
              IF c.call = "visit_unit" THEN Ok([kind |-> "unit_struct"])
              ELSE Err(invalid_type(Unexpected(c), expecting(T)))
         [] T.t = "newtype_struct" ->
              CASE c.call = "visit_newtype_struct" ->
                     LET r == Deserialize(T.of, c.de)
                     IN IF r.ok THEN Ok([kind |-> "newtype_struct", x |-> r.val])
                        ELSE r
                [] c.call = "visit_seq" ->
                     LET r == VisitSeqFields(<<T.of>>, c.seq, 1, <<>>,
                                expecting(T) \o " with 1 element")
                     IN IF r.ok THEN Ok([kind |-> "newtype_struct", x |-> r.val[1]])
                        ELSE r
                [] OTHER -> Err(invalid_type(Unexpected(c), expecting(T)))
         [] T.t = "option" ->
              CASE c.call \in {"visit_none", "visit_unit"} -> Ok([kind |-> "none"])
                [] c.call = "visit_some" ->
                     LET r == Deserialize(T.of, c.de)
                     IN IF r.ok THEN Ok([kind |-> "some", x |-> r.val]) ELSE r
                [] OTHER -> Err(invalid_type(Unexpected(c), expecting(T)))
         [] T.t = "seq" ->
              IF c.call # "visit_seq"
              THEN Err(invalid_type(Unexpected(c), expecting(T)))
              ELSE LET r == VisitSeqOf(T.of, c.seq, <<>>)
                   IN IF r.ok THEN Ok([kind |-> "seq", a |-> r.val]) ELSE r
         [] T.t = "tuple" ->
              IF c.call # "visit_seq"
              THEN Err(invalid_type(Unexpected(c), expecting(T)))
              ELSE LET r == VisitSeqFields(T.elems, c.seq, 1, <<>>, expecting(T))
                   IN IF r.ok THEN Ok([kind |-> "tuple", a |-> r.val]) ELSE r
         [] T.t = "map" ->
              IF c.call # "visit_map"
              THEN Err(invalid_type(Unexpected(c), expecting(T)))
              ELSE LET r == VisitMapEntries(T.key, T.of, c.map, {})
                   IN IF r.ok THEN Ok([kind |-> "map", m |-> BTreeMap_iter(r.val)])
                      ELSE r
         [] T.t = "struct" ->
              LET r == VisitFields(T.fields, c, expecting(T))
              IN IF r.ok THEN Ok([kind |-> "struct", fields |-> r.val]) ELSE r
         [] T.t = "enum" ->
              IF c.call = "visit_enum" THEN VisitEnum(T, c.en)
              ELSE Err(invalid_type(Unexpected(c), expecting(T)))
         [] T.t = "value" -> VisitValue(c)
         [] T.t = "ignored_any" -> Ok([kind |-> "ignored"])
         [] T.t = "field_identifier" ->
              IF c.call = "visit_string"
              THEN Ok([kind |-> "field", idx |-> IndexOfName(T.fields, c.s)])
              ELSE Err(invalid_type(Unexpected(c), expecting(T)))
         [] T.t = "variant_identifier" ->
              IF c.call # "visit_string"
              THEN Err(invalid_type(Unexpected(c), expecting(T)))
              ELSE IF IndexOfName(T.variants, c.s) = 0
              THEN Err(unknown_variant(c.s))
              ELSE Ok([kind |-> "variant", idx |-> IndexOfName(T.variants, c.s)])

\* which Deserializer method T::deserialize calls
DeserializerCall(T, de) ==
  CASE T.t = "option" -> deserialize_option(de)
    [] T.t = "enum" -> deserialize_enum(de)
    [] T.t = "newtype_struct" -> deserialize_newtype_struct(de)
    [] T.t = "value" -> deserialize_any(de)
    [] OTHER -> forward_to_deserialize(de)

Deserialize(T, de) == Visit(T, DeserializerCall(T, de))

\* lib.rs
from_value(T, val) == Deserialize(T, Deserializer_from(val))

(***************************************************************************)
(* The binary codec: bincode::encode_to_vec / decode_from_slice with       *)
(* config::standard() (little endian, variable-length integers, no limit)  *)
(* on the Encode / Decode derived for Value: the variant index in          *)
(* declaration order, then the payload.  The crate is a collaborator       *)
(* outside the repository; it is modelled from its documented format.      *)
(***************************************************************************)
\* str::as_bytes on the strings of the model; a byte string that is none
\* of them is taken not to be UTF-8
Utf8(s) ==
  CASE s = "" -> <<>>
    [] s = "A" -> <<65>>
    [] s = "Move" -> <<77, 111, 118, 101>>
    [] s = "Pair" -> <<80, 97, 105, 114>>
    [] s = "Quit" -> <<81, 117, 105, 116>>
    [] s = "Wrap" -> <<87, 114, 97, 112>>
    [] s = "a" -> <<97>>
    [] s = "b" -> <<98>>
    [] s = "id" -> <<105, 100>>
    [] s = "name" -> <<110, 97, 109, 101>>
    [] s = "x" -> <<120>>
    [] s = "y" -> <<121>>

U64Zero(u, n) == \A j \in 1..n : u[j] = 0

\* varint of a u64 given as 8 big-endian bytes; the payload is little endian
varint_encode_u64(u) ==
  IF U64Zero(u, 7) /\ u[8] < 251 THEN <<u[8]>>
  ELSE IF U64Zero(u, 6) THEN <<251, u[8], u[7]>>
  ELSE IF U64Zero(u, 4) THEN <<252, u[8], u[7], u[6], u[5]>>
  ELSE <<253, u[8], u[7], u[6], u[5], u[4], u[3], u[2], u[1]>>

\* a length or variant index below 2^16 as a u64
NatToU64(n) == [j \in 1..8 |-> IF j = 8 THEN n % 256
                                ELSE IF j = 7 THEN n \div 256 ELSE 0]
varint_encode_usize(n) == varint_encode_u64(NatToU64(n))
varint_encode_u32(n) == varint_encode_u64(NatToU64(n))

ShiftLeft1(u) ==
  [j \in 1..8 |-> ((2 * u[j]) % 256) + (IF j < 8 THEN u[j + 1] \div 128 ELSE 0)]
ShiftRight1(u) ==
  [j \in 1..8 |-> (u[j] \div 2) + (IF j > 1 THEN (u[j - 1] % 2) * 128 ELSE 0)]
BitNot(u) == [j \in 1..8 |-> 255 - u[j]]

\* zigzag: (n << 1) ^ (n >> 63), and back: (u >> 1) ^ -(u & 1)
zigzag(n) == IF I64IsNeg(n) THEN BitNot(ShiftLeft1(n)) ELSE ShiftLeft1(n)
unzigzag(u) == IF u[8] % 2 = 1 THEN BitNot(ShiftRight1(u)) ELSE ShiftRight1(u)
varint_encode_i64(n) == varint_encode_u64(zigzag(n))

Pow2(n) == 2 ^ n

\* f64::to_bits of a float counted in halves (magnitude below 2^20), as 8
\* big-endian bytes: sign, 11 exponent bits, 52 fraction bits
f64_to_bits(h) ==
  IF h = 0 THEN [j \in 1..8 |-> 0]
  ELSE LET mag == IF h < 0 THEN -h ELSE h
           p == CHOOSE q \in 0..20 : Pow2(q) <= mag /\ mag < Pow2(q + 1)
           biased == (p - 1) + 1023
           frac20 == (mag - Pow2(p)) * Pow2(20 - p)
       IN << (IF h < 0 THEN 128 ELSE 0) + biased \div 16,
             (biased % 16) * 16 + frac20 \div 65536,
             (frac20 % 65536) \div 256, frac20 % 256, 0, 0, 0, 0 >>

\* f64::from_bits for the bit patterns of such floats
f64_from_bits(b) ==
  IF \A j \in 1..8 : b[j] = 0 THEN 0
  ELSE LET biased == (b[1] % 128) * 16 + b[2] \div 16
           p == biased - 1022
           frac20 == (b[2] % 16) * 65536 + b[3] * 256 + b[4]
           mag == Pow2(p) + frac20 \div Pow2(20 - p)
       IN IF b[1] >= 128 THEN -mag ELSE mag

RECURSIVE Value_encode(_)
RECURSIVE EncodeValues(_, _)
EncodeValues(a, j) ==
  IF j > Len(a) THEN <<>> ELSE Value_encode(a[j]) \o EncodeValues(a, j + 1)
String_encode(s) == varint_encode_usize(Len(Utf8(s))) \o Utf8(s)
RECURSIVE EncodeEntries(_, _)
EncodeEntries(it, j) ==
  IF j > Len(it) THEN <<>>
  ELSE String_encode(it[j].k) \o Value_encode(it[j].v) \o EncodeEntries(it, j + 1)

\* #[derive(bincode::Encode)] on enum Value
Value_encode(v) ==
  CASE v.tag = "Null" -> varint_encode_u32(0)
    [] v.tag = "Boolean" -> varint_encode_u32(1) \o <<IF v.b THEN 1 ELSE 0>>
    [] v.tag = "Blob" ->
         varint_encode_u32(2) \o varint_encode_usize(Len(v.blob)) \o v.blob
    [] v.tag = "Array" ->
         varint_encode_u32(3) \o varint_encode_usize(Len(v.a)) \o EncodeValues(v.a, 1)
    [] v.tag = "Integer" -> varint_encode_u32(4) \o varint_encode_i64(v.i)
    [] v.tag = "Float" -> varint_encode_u32(5) \o Reverse(f64_to_bits(v.f))
    [] v.tag = "Object" ->
         varint_encode_u32(6) \o varint_encode_usize(Cardinality(v.o))
           \o EncodeEntries(Map_into_iter(v.o), 1)
    [] v.tag = "String" -> varint_encode_u32(7) \o String_encode(v.s)

\* EncodeError
EncodeError_UnexpectedEnd == [kind |-> "UnexpectedEnd"]
EncodeError_Other(msg) == [kind |-> "Other", msg |-> msg]

\* The codec is a collaborator outside the repository: it returns the bytes
\* of the value or an EncodeError of its own.  `fault` is what the codec
\* reports on this call: None_, or the EncodeError it fails with.
encode_to_vec(value, fault) ==
  IF fault.some THEN Err(fault.x) ELSE Ok(Value_encode(value))

\* DecodeError
UnexpectedEnd == [kind |-> "UnexpectedEnd"]
UnexpectedVariant(found) == [kind |-> "UnexpectedVariant", found |-> found]
InvalidBooleanValue(found) == [kind |-> "InvalidBooleanValue", found |-> found]
InvalidIntegerType == [kind |-> "InvalidIntegerType"]
Utf8Error == [kind |-> "Utf8"]

\* a decoder step returns the decoded item and the position after it
OkAt(x, pos) == [ok |-> TRUE, val |-> x, pos |-> pos]

\* varint of a u64 at pos, as 8 big-endian bytes
varint_decode_u64(bytes, pos) ==
  IF pos > Len(bytes) THEN Err(UnexpectedEnd)
  ELSE LET tag == bytes[pos]
           n == CASE tag = 251 -> 2 [] tag = 252 -> 4 [] tag = 253 -> 8 [] OTHER -> 0
       IN IF tag < 251 THEN OkAt(NatToU64(tag), pos + 1)
          ELSE IF tag > 253 THEN Err(InvalidIntegerType)
          ELSE IF pos + n > Len(bytes) THEN Err(UnexpectedEnd)
          ELSE OkAt([j \in 1..8 |-> IF j <= 8 - n THEN 0 ELSE bytes[pos + 9 - j]],
                    pos + 1 + n)

\* a usize or u32 read as a varint; the model's inputs keep it below 2^16
usize_from_u64(r) ==
  IF ~r.ok THEN r
  ELSE IF U64Zero(r.val, 6) THEN OkAt(r.val[7] * 256 + r.val[8], r.pos)
  ELSE Err(UnexpectedEnd)
varint_decode_usize(bytes, pos) == usize_from_u64(varint_decode_u64(bytes, pos))
\* a u32 does not take the eight-byte marker
varint_decode_u32(bytes, pos) ==
  IF pos <= Len(bytes) /\ bytes[pos] = 253 THEN Err(InvalidIntegerType)
  ELSE varint_decode_usize(bytes, pos)

i64_from_u64(r) == IF r.ok THEN OkAt(unzigzag(r.val), r.pos) ELSE r
varint_decode_i64(bytes, pos) == i64_from_u64(varint_decode_u64(bytes, pos))

\* Vec<u8>: the length n, then n bytes
Bytes_take(bytes, n) ==
  IF ~n.ok THEN n
  ELSE IF n.pos + n.val - 1 > Len(bytes) THEN Err(UnexpectedEnd)
  ELSE OkAt(SubSeq(bytes, n.pos, n.pos + n.val - 1), n.pos + n.val)
Bytes_decode(bytes, pos) == Bytes_take(bytes, varint_decode_usize(bytes, pos))

\* String: a Vec<u8> that must be UTF-8
Utf8Known == {"", "A", "Move", "Pair", "Quit", "Wrap", "a", "b", "id", "name", "x", "y"}
String_from_utf8(b) ==
  IF ~b.ok THEN b
  ELSE IF \E s \in Utf8Known : Utf8(s) = b.val
  THEN OkAt(CHOOSE s \in Utf8Known : Utf8(s) = b.val, b.pos)
  ELSE Err(Utf8Error)
String_decode(bytes, pos) == String_from_utf8(Bytes_decode(bytes, pos))

RECURSIVE Value_decode(_, _)

\* Vec<Value>: n values one after the other; r is the value just decoded
RECURSIVE DecodeValues(_, _, _, _)
DecodeValuesPush(bytes, n, acc, r) ==
  IF r.ok THEN DecodeValues(bytes, r.pos, n - 1, Append(acc, r.val)) ELSE r
DecodeValues(bytes, pos, n, acc) ==
  IF n = 0 THEN OkAt(acc, pos)
  ELSE DecodeValuesPush(bytes, n, acc, Value_decode(bytes, pos))

\* HashMap<String, Value>: n times a key then a value
RECURSIVE DecodeEntries(_, _, _, _)
DecodeEntriesInsert(bytes, n, acc, k, r) ==
  IF r.ok THEN DecodeEntries(bytes, r.pos, n - 1, Map_insert(acc, k.val, r.val))
  ELSE r
DecodeEntriesValue(bytes, n, acc, k) ==
  IF ~k.ok THEN k
  ELSE DecodeEntriesInsert(bytes, n, acc, k, Value_decode(bytes, k.pos))
DecodeEntries(bytes, pos, n, acc) ==
  IF n = 0 THEN OkAt(acc, pos)
  ELSE DecodeEntriesValue(bytes, n, acc, String_decode(bytes, pos))

\* the payload of each variant, read at pos
Boolean_decode(bytes, pos) ==
  IF pos > Len(bytes) THEN Err(UnexpectedEnd)
  ELSE IF bytes[pos] > 1 THEN Err(InvalidBooleanValue(bytes[pos]))
  ELSE OkAt(Boolean(bytes[pos] = 1), pos + 1)
Blob_from(b) == IF b.ok THEN OkAt(Blob(b.val), b.pos) ELSE b
Array_from(r) == IF r.ok THEN OkAt(Array(r.val), r.pos) ELSE r
Array_decode(bytes, n) ==
  IF ~n.ok THEN n ELSE Array_from(DecodeValues(bytes, n.pos, n.val, <<>>))
Integer_from(i) == IF i.ok THEN OkAt(Integer(i.val), i.pos) ELSE i
Float_decode(bytes, pos) ==
  IF pos + 7 > Len(bytes) THEN Err(UnexpectedEnd)
  ELSE OkAt(Float(f64_from_bits(Reverse(SubSeq(bytes, pos, pos + 7)))), pos + 8)
Object_from(r) == IF r.ok THEN OkAt(Object(r.val), r.pos) ELSE r
Object_decode(bytes, n) ==
  IF ~n.ok THEN n ELSE Object_from(DecodeEntries(bytes, n.pos, n.val, Map_new))
String_from(str) == IF str.ok THEN OkAt(String(str.val), str.pos) ELSE str

\* #[derive(bincode::Decode)] on enum Value: idx is the variant index read
Value_decode_variant(bytes, idx) ==
  IF ~idx.ok THEN idx
  ELSE CASE idx.val = 0 -> OkAt(Null, idx.pos)
         [] idx.val = 1 -> Boolean_decode(bytes, idx.pos)
         [] idx.val = 2 -> Blob_from(Bytes_decode(bytes, idx.pos))
         [] idx.val = 3 -> Array_decode(bytes, varint_decode_usize(bytes, idx.pos))
         [] idx.val = 4 -> Integer_from(varint_decode_i64(bytes, idx.pos))
         [] idx.val = 5 -> Float_decode(bytes, idx.pos)
         [] idx.val = 6 -> Object_decode(bytes, varint_decode_usize(bytes, idx.pos))
         [] idx.val = 7 -> String_from(String_decode(bytes, idx.pos))
         [] OTHER -> Err(UnexpectedVariant(idx.val))
Value_decode(bytes, pos) ==
  Value_decode_variant(bytes, varint_decode_u32(bytes, pos))

\* returns (value, bytes consumed); bytes after the value are not read
decode_from_slice(bytes) ==
  LET r == Value_decode(bytes, 1)
  IN IF r.ok THEN Ok(<<r.val, r.pos - 1>>) ELSE r

(***************************************************************************)
(* error.rs: From<EncodeError> / From<DecodeError> for Error, by way of    *)
(* BincodeError                                                            *)
(***************************************************************************)
BincodeError_Encode(e) == [dir |-> "Encode", e |-> e]
BincodeError_Decode(e) == [dir |-> "Decode", e |-> e]
Error_from_EncodeError(value) == Bincode(BincodeError_Encode(value))
Error_from_DecodeError(value) == Bincode(BincodeError_Decode(value))

(***************************************************************************)
(* lib.rs: to_vec / from_slice.  `calls` lists the collaborators the       *)
(* function entered, in order.                                             *)
(***************************************************************************)
to_vec(val, fault) ==
  LET value == to_value(val)
      encoded == encode_to_vec(value.val, fault)
  IN IF ~value.ok
     THEN [ret |-> Err(value.err), calls |-> <<"to_value">>]
     ELSE IF ~encoded.ok
     THEN [ret |-> Err(Error_from_EncodeError(encoded.err)),
           calls |-> <<"to_value", "encode_to_vec">>]
     ELSE [ret |-> Ok(encoded.val), calls |-> <<"to_value", "encode_to_vec">>]

\* from_slice with a failed decode replaced by the default Value
from_slice_decode_or_default(T, val) ==
  LET decoded == decode_from_slice(val)
  IN [ret |-> from_value(T, IF decoded.ok THEN decoded.val[1] ELSE Null),
      calls |-> <<"decode_from_slice", "from_value">>]
from_slice(T, val) ==
  LET decoded == decode_from_slice(val)
  IN IF ~decoded.ok
     THEN [ret |-> Err(Error_from_DecodeError(decoded.err)),
           calls |-> <<"decode_from_slice">>]
     ELSE [ret |-> from_value(T, decoded.val[1]),
           calls |-> <<"decode_from_slice", "from_value">>]

(***************************************************************************)
(* The typed data the operations are applied to                            *)
(***************************************************************************)
\* bit patterns tried for every integer type: 0, 1, 2, 7, the largest
\* pattern with a clear top bit, the top bit alone, and all ones
IntPatterns(width) ==
  LET n == width \div 8
  IN { [j \in 1..n |-> 0],
       [j \in 1..n |-> IF j = n THEN 1 ELSE 0],
       [j \in 1..n |-> IF j = n THEN 2 ELSE 0],
       [j \in 1..n |-> IF j = n THEN 7 ELSE 0],
       [j \in 1..n |-> IF j = 1 THEN 127 ELSE 255],
       [j \in 1..n |-> IF j = 1 THEN 128 ELSE 0],
       [j \in 1..n |-> 255] }

IntTypes == {TInt(sg, w) : sg \in BOOLEAN, w \in {8, 16, 32, 64}}
TI64 == TInt(TRUE, 64)
TI32 == TInt(TRUE, 32)
TU32 == TInt(FALSE, 32)

FloatSamples == {3, -5}
CharSamples == {"a", "x"}
StringSamples == {"", "a", "Quit"}
KeySamples == {"a", "b"}

RECURSIVE ValuesOf(_)

\* all tuples <<v1, .., vn>> with vj a value of tys[j]
RECURSIVE ProductOf(_)
ProductOf(tys) ==
  IF Len(tys) = 0 THEN {<<>>}
  ELSE {<<h>> \o t : h \in ValuesOf(Head(tys)), t \in ProductOf(Tail(tys))}

\* a map's entries in the order its iterator yields them (BTreeMap: by key)
RECURSIVE KeysInOrder(_)
KeysInOrder(ks) ==
  IF ks = {} THEN <<>>
  ELSE LET first == CHOOSE k \in ks : \A o \in ks : KeyRank(k) <= KeyRank(o)
       IN <<first>> \o KeysInOrder(ks \ {first})

MapValuesOf(T) ==
  IF T.key.t = "string"
  THEN UNION { { [j \in 1..Len(KeysInOrder(ks)) |->
                    [key |-> [kind |-> "str", s |-> KeysInOrder(ks)[j]],
                     val |-> f[KeysInOrder(ks)[j]]]]
                 : f \in [ks -> ValuesOf(T.of)] }
               : ks \in {k \in SUBSET KeySamples : Cardinality(k) <= MaxLen} }
  ELSE {<<>>} \cup { <<[key |-> k, val |-> v]>>
                       : k \in ValuesOf(T.key), v \in ValuesOf(T.of) }
                \cup { <<[key |-> [kind |-> "none"], val |-> v],
                         [key |-> k, val |-> v]>>
                       : k \in (IF T.key.t = "option" THEN ValuesOf(T.key.of) ELSE {}),
                         v \in ValuesOf(T.of) }

VariantValues(var) ==
  CASE var.kind = "unit" -> {[kind |-> "unit_variant", variant |-> var.name]}
    [] var.kind = "newtype" ->
         {[kind |-> "newtype_variant", variant |-> var.name, x |-> x]
            : x \in ValuesOf(var.of)}
    [] var.kind = "tuple" ->
         {[kind |-> "tuple_variant", variant |-> var.name, a |-> a]
            : a \in ProductOf(var.elems)}
    [] var.kind = "struct" ->
         {[kind |-> "struct_variant", variant |-> var.name,
           fields |-> NamedFields(var.fields, a)]
            : a \in ProductOf(FieldTypes(var.fields))}

ValuesOf(T) ==
  CASE T.t = "bool" -> {[kind |-> "bool", b |-> b] : b \in BOOLEAN}
    [] T.t = "int" ->
         {[kind |-> "int", signed |-> T.signed, width |-> T.width, bytes |-> bs]
            : bs \in IntPatterns(T.width)}
    [] T.t \in {"f32", "f64"} -> {[kind |-> T.t, f |-> h] : h \in FloatSamples}
    [] T.t = "char" -> {[kind |-> "char", c |-> ch] : ch \in CharSamples}
    [] T.t = "string" -> {[kind |-> "str", s |-> str] : str \in StringSamples}
    [] T.t = "unit" -> {[kind |-> "unit"]}
    [] T.t = "ipv4" -> Ipv4Samples
    [] T.t = "unit_struct" -> {[kind |-> "unit_struct"]}
    [] T.t = "newtype_struct" ->
         {[kind |-> "newtype_struct", x |-> x] : x \in ValuesOf(T.of)}
    [] T.t = "option" ->
         {[kind |-> "none"]} \cup {[kind |-> "some", x |-> x] : x \in ValuesOf(T.of)}
    [] T.t = "seq" ->
         UNION { {[kind |-> "seq", a |-> a] : a \in [1..n -> ValuesOf(T.of)]}
                 : n \in 0..MaxLen }
    [] T.t = "tuple" -> {[kind |-> "tuple", a |-> a] : a \in ProductOf(T.elems)}
    [] T.t = "map" -> {[kind |-> "map", m |-> m] : m \in MapValuesOf(T)}
    [] T.t = "struct" ->
         {[kind |-> "struct", fields |-> NamedFields(T.fields, a)]
            : a \in ProductOf(FieldTypes(T.fields))}
    [] T.t = "enum" ->
         UNION {VariantValues(T.variants[j]) : j \in 1..Len(T.variants)}

\* the declared types of the model
TUser == TStruct("User", <<Field("id", TU32), Field("name", TString)>>)
TOpt == TStruct("Opt", <<Field("a", TOption(TBool)), Field("b", TBool)>>)
TCmd == TEnum("Cmd", <<UnitVariant("Quit"),
                       NewtypeVariant("Wrap", TOption(TBool)),
                       TupleVariant("Pair", <<TI32, TBool>>),
                       StructVariant("Move", <<Field("x", TI32), Field("y", TI32)>>)>>)

TargetTypes ==
  IntTypes \cup
  { TBool, TF32, TF64, TChar, TString, TUnit, TUnitStruct("Marker"),
    TNewtypeStruct("Meters", TI32),
    TOption(TI64), TOption(TOption(TBool)), TOption(TUnit),
    TSeq(TBool), TSeq(TUnit), TTuple(<<TI64, TString>>),
    TMap(TString, TBool), TMap(TI32, TBool), TMap(TOption(TString), TBool),
    TMap(TString, TMap(TI32, TBool)),
    TUser, TOpt, TCmd, TIpv4 }

TypedInputs == UNION { {[ty |-> T, v |-> v] : v \in ValuesOf(T)} : T \in TargetTypes }

(***************************************************************************)
(* Values handed to from_value directly                                    *)
(***************************************************************************)
I64(n) == [j \in 1..8 |-> IF j = 8 THEN n ELSE 0]
I64MinusOne == [j \in 1..8 |-> 255]
Entry(k, v) == [k |-> k, v |-> v]

SampleValues ==
  { Null, Boolean(TRUE), Blob(<<97>>), Blob(<<255>>),
    Array(<<>>), Array(<<Boolean(TRUE), Boolean(FALSE)>>),
    Array(<<Integer(I64(1)), Boolean(TRUE)>>), Array(<<Integer(I64(1))>>),
    Array(<<Integer(I64(7)), String("a")>>),
    Integer(I64(7)), Integer(I64MinusOne), Float(3),
    String("Quit"), String("Move"), String("a"), String("name"),
    String("Wrap"), String("Pair"), String("127.0.0.1"),
    Array(<<Integer(I64(127)), Integer(I64(0)), Integer(I64(0)), Integer(I64(1))>>),
    Object({}),
    Object({Entry("id", Integer(I64(7))), Entry("name", String("a"))}),
    Object({Entry("a", Boolean(TRUE)), Entry("b", Boolean(FALSE))}),
    Object({Entry("Quit", Null)}),
    Object({Entry("Quit", Integer(I64(7)))}),
    Object({Entry("Quit", Blob(<<97>>))}),
    Object({Entry("Quit", Array(<<Integer(I64(1)), Boolean(TRUE)>>))}),
    Object({Entry("Quit", Object({Entry("a", Float(3))}))}),
    Object({Entry("Quit", String("Move"))}),
    Object({Entry("Wrap", Boolean(TRUE))}),
    Object({Entry("Pair", Array(<<Integer(I64(1)), Boolean(TRUE)>>))}),
    Object({Entry("Pair", Array(<<>>))}),
    Object({Entry("Pair", Integer(I64(7)))}),
    Object({Entry("Move", Object({Entry("x", Integer(I64(1))),
                                  Entry("y", Integer(I64(2)))}))}),
    Object({Entry("Move", Array(<<Integer(I64(1)), Integer(I64(2))>>))}),
    Object({Entry("Move", String("a"))}),
    Object({Entry("Quit", Null), Entry("Wrap", Boolean(TRUE))}),
    Object({Entry("Quit", Null), Entry("Wrap", Boolean(TRUE)),
            Entry("Pair", Array(<<>>))}),
    Object({Entry("A", Null)}) }

GivenValues ==
  {[src |-> "value", ty |-> T, val |-> v]
     : T \in TargetTypes \cup {TValue}, v \in SampleValues}
GivenTyped == {[src |-> "typed", ty |-> ti.ty, v |-> ti.v] : ti \in TypedInputs}

HashOrders == [rev : BOOLEAN, rot : 0..2]

\* what the codec may answer to encode_to_vec
EncodeFaults ==
  {None_, Some(EncodeError_UnexpectedEnd), Some(EncodeError_Other("codec"))}

\* byte strings handed to from_slice directly: an unknown variant index, a
\* boolean that is neither 0 nor 1, a complete value followed by one more
\* byte, a reserved varint marker, and a cut-off two-byte integer
SampleBytes == { <<9>>, <<1, 2>>, <<1, 1, 0>>, <<254>>, <<253>>, <<4, 251, 1>>, <<>> }
GivenBytes == {[src |-> "bytes", ty |-> T, bytes |-> b]
                 : T \in {TBool, TUnit, TCmd}, b \in SampleBytes}

(***************************************************************************)
(* The state machine: one call of the facade per step                      *)
(***************************************************************************)
VARIABLES
  input,   \* what the caller holds: a typed value, or a Value or bytes and a target
  op,      \* the facade function called last
  arg,     \* its argument
  ret,     \* what it returned
  calls,   \* the collaborators it entered
  recv     \* the access object or map serializer a call sequence drives

vars == <<hashOrder, input, op, arg, ret, calls, recv>>

Init ==
  /\ hashOrder \in HashOrders
  /\ input \in GivenTyped \cup GivenValues \cup GivenBytes
  /\ op = "none"
  /\ arg = [src |-> "none"]
  /\ ret = [unset |-> TRUE]
  /\ calls = <<>>
  /\ recv = [unused |-> TRUE]

\* to_value(&input)
ToValue ==
  /\ op = "none"
  /\ input.src = "typed"
  /\ op' = "to_value"
  /\ arg' = [src |-> "input"]
  /\ ret' = to_value(input.v)
  /\ calls' = <<>>
  /\ UNCHANGED <<hashOrder, input, recv>>

\* from_value::<T>(value) on the Value that to_value returned
FromValue ==
  /\ op = "to_value"
  /\ ret.ok
  /\ op' = "from_value"
  /\ arg' = [src |-> "to_value", ty |-> input.ty, val |-> ret.val]
  /\ ret' = from_value(input.ty, ret.val)
  /\ calls' = <<>>
  /\ UNCHANGED <<hashOrder, input, recv>>

\* from_value::<T>(value) on a Value the caller built
FromValueGiven ==
  /\ op = "none"
  /\ input.src = "value"
  /\ op' = "from_value"
  /\ arg' = [src |-> "given", ty |-> input.ty, val |-> input.val]
  /\ ret' = from_value(input.ty, input.val)
  /\ calls' = <<>>
  /\ UNCHANGED <<hashOrder, input, recv>>

\* to_vec(&input), the codec answering with its bytes or with a failure
ToVec ==
  /\ op = "none"
  /\ input.src = "typed"
  /\ op' = "to_vec"
  /\ \E fault \in EncodeFaults :
       /\ arg' = [src |-> "input", fault |-> fault]
       /\ ret' = to_vec(input.v, fault).ret
       /\ calls' = to_vec(input.v, fault).calls
  /\ UNCHANGED <<hashOrder, input, recv>>

\* from_slice::<T>(&bytes) on the bytes that to_vec returned
FromSlice ==
  /\ op = "to_vec"
  /\ ret.ok
  /\ op' = "from_slice"
  /\ arg' = [src |-> "to_vec", ty |-> input.ty, bytes |-> ret.val]
  /\ ret' = from_slice(input.ty, ret.val).ret
  /\ calls' = from_slice(input.ty, ret.val).calls
  /\ UNCHANGED <<hashOrder, input, recv>>

\* from_slice::<T>(&bytes[..n]) on a proper prefix of those bytes
FromSliceTruncated ==
  /\ op = "to_vec"
  /\ ret.ok
  /\ \E n \in 0..(Len(ret.val) - 1) :
       /\ arg' = [src |-> "truncated", ty |-> input.ty, bytes |-> SubSeq(ret.val, 1, n)]
       /\ ret' = from_slice(input.ty, SubSeq(ret.val, 1, n)).ret
       /\ calls' = from_slice(input.ty, SubSeq(ret.val, 1, n)).calls
  /\ op' = "from_slice"
  /\ UNCHANGED <<hashOrder, input, recv>>

\* from_slice::<T>(&bytes) on bytes the caller built
FromSliceGiven ==
  /\ op = "none"
  /\ input.src = "bytes"
  /\ op' = "from_slice"
  /\ arg' = [src |-> "given", ty |-> input.ty, bytes |-> input.bytes]
  /\ ret' = from_slice(input.ty, input.bytes).ret
  /\ calls' = from_slice(input.ty, input.bytes).calls
  /\ UNCHANGED <<hashOrder, input, recv>>

Next ==
  \/ ToValue
  \/ FromValue
  \/ FromValueGiven
  \/ ToVec
  \/ FromSlice
  \/ FromSliceTruncated
  \/ FromSliceGiven

Spec == Init /\ [][Next]_vars

(***************************************************************************)
(* Properties                                                              *)
(***************************************************************************)
TheUnit == [kind |-> "unit"]
Absent == [kind |-> "none"]
Present(x) == [kind |-> "some", x |-> x]
I32(n) == [kind |-> "int", signed |-> TRUE, width |-> 32,
           bytes |-> <<0, 0, 0, n>>]
MoveValue == [kind |-> "struct_variant", variant |-> "Move",
              fields |-> <<[name |-> "x", val |-> I32(1)],
                           [name |-> "y", val |-> I32(2)]>>]
UserObject == Object({Entry("id", Integer(I64(7))), Entry("name", String("a"))})
TwoKeyObject == Object({Entry("Quit", Null), Entry("Wrap", Boolean(TRUE))})

\* C1: every supported typed value survives to_value then from_value, and
\* to_vec then from_slice, unchanged.
C1_RoundTrip ==
  /\ (op = "from_value" /\ arg.src = "to_value") => ret = Ok(input.v)
  /\ (op = "from_slice" /\ arg.src = "to_vec") => ret = Ok(input.v)

\* every typed value nested in tv, tv itself and map keys included
RECURSIVE TypedParts(_)
TypedParts(tv) ==
  {tv} \cup
  CASE tv.kind \in {"some", "newtype_struct", "newtype_variant"} -> TypedParts(tv.x)
    [] tv.kind \in {"seq", "tuple", "tuple_variant"} ->
         UNION {TypedParts(tv.a[j]) : j \in 1..Len(tv.a)}
    [] tv.kind = "map" ->
         UNION {TypedParts(tv.m[j].key) \cup TypedParts(tv.m[j].val)
                  : j \in 1..Len(tv.m)}
    [] tv.kind \in {"struct", "struct_variant"} ->
         UNION {TypedParts(tv.fields[j].val) : j \in 1..Len(tv.fields)}
    [] OTHER -> {}

MapKeysOf(tv) ==
  UNION { {mp.m[j].key : j \in 1..Len(mp.m)}
          : mp \in {part \in TypedParts(tv) : part.kind = "map"} }

\* the type labels of the map keys of tv that encode to something other
\* than a String
BadKeyLabels(tv) ==
  { error_description(to_value(key).val)
      : key \in {k \in MapKeysOf(tv) : to_value(k).ok /\ to_value(k).val.tag # "String"} }

\* C2: to_value fails exactly when some map key encodes to a Value that is
\* not a String, and then with Expected("type str", that Value's label).
C2_KeyTypeEnforcement ==
  op = "to_value" =>
    /\ ret.ok <=> BadKeyLabels(input.v) = {}
    /\ ~ret.ok => /\ ret.err.e = "Expected"
                  /\ ret.err.exp = "type str"
                  /\ ret.err.found \in BadKeyLabels(input.v)

C2_Witness ==
  /\ op = "to_value"
  /\ input.ty = TMap(TI32, TBool)
  /\ ret = Err(Expected("type str", "type integer"))

EncodedFields(fields) ==
  {Entry(fields[j].name, to_value(fields[j].val).val) : j \in 1..Len(fields)}

\* C3: a unit case encodes to String(tag); the other three kinds encode to
\* an Object whose only entry is tag -> payload, the payload being the
\* encoded value, the Array of encoded values, or the Object of encoded
\* fields.
C3_TaggedUnionEncoding ==
  (op = "to_value" /\ input.ty.t = "enum") =>
    LET v == input.v
    IN /\ ret.ok
       /\ v.kind = "unit_variant" => ret.val = String(v.variant)
       /\ v.kind = "newtype_variant" =>
            ret.val = Object({Entry(v.variant, to_value(v.x).val)})
       /\ v.kind = "tuple_variant" =>
            ret.val = Object({Entry(v.variant,
                        Array([j \in 1..Len(v.a) |-> to_value(v.a[j]).val]))})
       /\ v.kind = "struct_variant" =>
            ret.val = Object({Entry(v.variant, Object(EncodedFields(v.fields)))})
       /\ v = MoveValue =>
            ret.val = Object({Entry("Move",
                        Object({Entry("x", Integer(I64(1))),
                                Entry("y", Integer(I64(2)))}))})

C3_Witness ==
  /\ op = "to_value"
  /\ input.v = MoveValue
  /\ ret.ok
  /\ ret.val.tag = "Object"
  /\ Map_keys(ret.val.o) = {"Move"}

\* C4: an enum target given an empty Object fails with
\* Expected("variant name", "empty object"); given two or more keys it
\* fails with Expected("map with a single key", extra key "<k>") for a key
\* k of the Object; visit_enum is called exactly for a single key.
C4_SingleKeyDiscipline ==
  (op = "from_value" /\ arg.ty.t = "enum" /\ arg.val.tag = "Object") =>
    LET n == Cardinality(arg.val.o)
        call == DeserializerCall(arg.ty, Deserializer_from(arg.val))
    IN /\ n = 0 => ret = Err(Expected("variant name", "empty object"))
       /\ n >= 2 =>
            /\ ~ret.ok
            /\ ret.err.e = "Expected"
            /\ ret.err.exp = "map with a single key"
            /\ \E k \in Map_keys(arg.val.o) :
                 ret.err.found = "extra key \"" \o k \o "\""
       /\ call.call = "visit_enum" <=> n = 1

C4_Witness ==
  /\ op = "from_value"
  /\ arg.ty = TCmd
  /\ arg.val = TwoKeyObject
  /\ ret = Err(Expected("map with a single key", "extra key \"Wrap\""))

\* C5 as stated: absent encodes to Null and Null decodes to absent;
\* present(x) encodes to encode(x) and decodes back to present(x); Null
\* into an integer target is a type mismatch.
C5_Original ==
  /\ (op = "to_value" /\ input.v = Absent) => ret = Ok(Null)
  /\ (op = "to_value" /\ input.v.kind = "some") => ret = to_value(input.v.x)
  /\ (op = "from_value" /\ arg.ty.t = "option" /\ arg.val = Null) => ret = Ok(Absent)
  /\ (op = "from_value" /\ arg.src = "to_value" /\ input.v.kind = "some") =>
       ret = Ok(input.v)
  /\ (op = "from_value" /\ arg.ty.t = "int" /\ arg.val = Null) =>
       ~ret.ok /\ ret.err.e = "Expected"

\* C5 amended: absent encodes to Null and Null decodes to absent;
\* present(x) encodes to encode(x); any Value other than Null decodes, as
\* an optional target, to present(d) where d is what the payload target
\* decodes from that same Value, and to that decoding's error when it
\* fails, so present of an integer comes back unchanged; Null into an
\* integer target fails with a type-mismatch error.
C5_OptionalCollapse ==
  /\ (op = "to_value" /\ input.v = Absent) => ret = Ok(Null)
  /\ (op = "to_value" /\ input.v.kind = "some") => ret = to_value(input.v.x)
  /\ (op = "from_value" /\ arg.ty.t = "option") =>
       LET inner == from_value(arg.ty.of, arg.val)
       IN ret = IF arg.val = Null THEN Ok(Absent)
                ELSE IF inner.ok THEN Ok(Present(inner.val))
                ELSE inner
  /\ (op = "from_value" /\ arg.src = "to_value" /\ input.ty = TOption(TI64)) =>
       ret = Ok(input.v)
  /\ (op = "from_value" /\ arg.ty.t = "int" /\ arg.val = Null) =>
       ~ret.ok /\ ret.err.e = "Expected"

C5_Witness ==
  /\ op = "from_value"
  /\ arg.src = "to_value"
  /\ input.v = Present([kind |-> "int", signed |-> TRUE, width |-> 64, bytes |-> I64(7)])
  /\ arg.val = Integer(I64(7))
  /\ ret = Ok(input.v)

\* C6: a unit target decodes from the empty Array, which is also what
\* to_value makes of the unit value.
C6_UnitFromEmptyArray ==
  /\ (op = "to_value" /\ input.v = TheUnit) => ret = Ok(Array(<<>>))
  /\ (op = "from_value" /\ arg.ty = TUnit /\ arg.val = Array(<<>>)) =>
       ret = Ok(TheUnit)

\* C7: an Object decoded into an integer target fails with
\* Expected(<integer type>, "type object").
C7_ObjectIntoInteger ==
  (op = "from_value" /\ arg.ty.t = "int" /\ arg.val.tag = "Object") =>
    ret = Err(Expected(IntTypeName(arg.ty), "type object"))

\* the number a bit pattern stands for: its sign and its magnitude as
\* base-256 digits without leading zeros
RECURSIVE StripZeros(_)
StripZeros(bytes) ==
  IF Len(bytes) = 0 THEN <<>>
  ELSE IF bytes[1] = 0 THEN StripZeros(Tail(bytes))
  ELSE bytes
Num(signed, bytes) ==
  IF signed /\ bytes[1] >= 128
  THEN [neg |-> TRUE, mag |-> StripZeros(NegateFrom(bytes, Len(bytes), 1))]
  ELSE [neg |-> FALSE, mag |-> StripZeros(bytes)]

\* C8: every integer encodes, without failing, to an Integer of 64 bits
\* that stands for the same number, except that a u64 of 2^63 or more
\* becomes the negative number v - 2^64.
C8_IntegerWidening ==
  (op = "to_value" /\ input.ty.t = "int") =>
    LET v == input.v
        wraps == ~v.signed /\ v.width = 64 /\ v.bytes[1] >= 128
    IN /\ ret.ok
       /\ ret.val.tag = "Integer"
       /\ Len(ret.val.i) = 8
       /\ ret.val = Value_from_int(v.signed, v.bytes)
       /\ Num(TRUE, ret.val.i) =
            IF wraps
            THEN [neg |-> TRUE, mag |-> StripZeros(NegateFrom(v.bytes, 8, 1))]
            ELSE Num(v.signed, v.bytes)

C8_Witness ==
  /\ op = "to_value"
  /\ input.v = [kind |-> "int", signed |-> FALSE, width |-> 64,
                bytes |-> [j \in 1..8 |-> 255]]
  /\ ret = Ok(Integer(I64MinusOne))
  /\ display_i64(ret.val.i) = "-1"

\* C9: to_vec is to_value then the codec, and an encoder error comes back
\* as it is with the codec not entered; a failure of the codec's encode
\* comes back as Error::Bincode; from_slice is the codec then from_value,
\* and a failure of the codec's decode comes back as Error::Bincode with
\* from_value not entered; what is returned is a whole result or an error:
\* the bytes of to_vec are the whole encoding of to_value's Value, and a
\* cut-off encoding is an error, never a value.
C9_FacadeComposition ==
  /\ op = "to_vec" =>
       LET value == to_value(input.v)
       IN IF ~value.ok
          THEN /\ ret = value
               /\ calls = <<"to_value">>
          ELSE IF arg.fault.some
          THEN /\ ret = Err(Bincode(BincodeError_Encode(arg.fault.x)))
               /\ calls = <<"to_value", "encode_to_vec">>
          ELSE /\ ret = Ok(Value_encode(value.val))
               /\ calls = <<"to_value", "encode_to_vec">>
               /\ decode_from_slice(ret.val) = Ok(<<value.val, Len(ret.val)>>)
  /\ op = "from_slice" =>
       LET decoded == decode_from_slice(arg.bytes)
       IN IF decoded.ok
          THEN /\ ret = from_value(arg.ty, decoded.val[1])
               /\ calls = <<"decode_from_slice", "from_value">>
          ELSE /\ ret = Err(Bincode(BincodeError_Decode(decoded.err)))
               /\ calls = <<"decode_from_slice">>
  /\ (op = "from_slice" /\ arg.src = "truncated") =>
       /\ ret = Err(Bincode(BincodeError_Decode(UnexpectedEnd)))
       /\ calls = <<"decode_from_slice">>

C9_Witness ==
  /\ op = "from_slice"
  /\ arg.src = "truncated"
  /\ input.v = MoveValue
  /\ Len(arg.bytes) = 8
  /\ ret = Err(Bincode(BincodeError_Decode(UnexpectedEnd)))
  /\ calls = <<"decode_from_slice">>

\* the entry of a single-key Object
OnlyEntry(v) == CHOOSE en \in v.o : TRUE

\* C10: a shape mismatch while decoding is Expected(expected, found) with
\* the offending Value's type label as the second field: for a Value that
\* is neither Object nor String at an enum position, for a payload that is
\* not an Array under a tuple-like case or not an Object under a
\* struct-like case, and for a Value an integer visitor rejects.
C10_ExpectedThenFound ==
  (op = "from_value" /\ arg.src = "given") =>
    /\ (arg.ty.t = "enum" /\ arg.val.tag \notin {"Object", "String"}) =>
         /\ ~ret.ok
         /\ ret.err.e = "Expected"
         /\ ret.err.found = error_description(arg.val)
    /\ (arg.ty = TCmd /\ arg.val.tag = "Object" /\ Cardinality(arg.val.o) = 1) =>
         LET en == OnlyEntry(arg.val)
         IN ((en.k = "Pair" /\ en.v.tag # "Array")
               \/ (en.k = "Move" /\ en.v.tag # "Object")) =>
              /\ ~ret.ok
              /\ ret.err.e = "Expected"
              /\ ret.err.found = error_description(en.v)
    /\ (arg.ty.t = "int" /\ arg.val.tag # "Integer") =>
         /\ ~ret.ok
         /\ ret.err.e = "Expected"
         /\ ret.err.found = error_description(arg.val)

\* C11: a struct target or a map target given a Value that is not an
\* Object fails, with an Expected error that carries the Value's type
\* label; an Array is not taken for a struct.
C11_OnlyObjectForStructOrMap ==
  (op = "from_value" /\ arg.ty.t \in {"struct", "map"} /\ arg.val.tag # "Object") =>
    /\ ~ret.ok
    /\ ret.err.e = "Expected"
    /\ error_description(arg.val) \in {ret.err.exp, ret.err.found}

\* C12: absent and present(absent) both encode to Null, and Null decoded
\* as an optional target is the outer absent, so present(absent) comes
\* back from its own encoding as absent.
C12_AbsentNullCollapse ==
  /\ (op = "to_value" /\ input.v \in {Absent, Present(Absent)}) => ret = Ok(Null)
  /\ (op = "from_value" /\ arg.ty.t = "option" /\ arg.val = Null) => ret = Ok(Absent)
  /\ (op = "from_value" /\ arg.src = "to_value"
        /\ input.v \in {Absent, Present(Absent)}) =>
       /\ arg.val = Null
       /\ ret = Ok(Absent)

C12_Witness ==
  /\ op = "from_value"
  /\ arg.src = "to_value"
  /\ input.ty = TOption(TOption(TBool))
  /\ input.v = Present(Absent)
  /\ arg.val = Null
  /\ ret = Ok(Absent)

\* the visitor method the Value's tag selects
DispatchOf(v) ==
  CASE v.tag = "Null" -> [call |-> "visit_none"]
    [] v.tag = "Boolean" -> [call |-> "visit_bool", b |-> v.b]
    [] v.tag = "Blob" -> [call |-> "visit_byte_buf", blob |-> v.blob]
    [] v.tag = "Array" ->
         [call |-> "visit_seq", seq |-> [iter |-> v.a, len |-> Len(v.a)]]
    [] v.tag = "Integer" -> [call |-> "visit_i64", i |-> v.i]
    [] v.tag = "Float" -> [call |-> "visit_f64", f |-> v.f]
    [] v.tag = "Object" ->
         [call |-> "visit_map",
          map |-> [iter |-> Map_into_iter(v.o), value |-> None_,
                   len |-> Cardinality(v.o)]]
    [] v.tag = "String" -> [call |-> "visit_string", s |-> v.s]

\* C13: for every target that is not an option, an enum or a newtype
\* struct the visitor method called is the one the Value's tag selects,
\* whatever the target; a Value target therefore gets the Value back; a
\* decoder holding no Value fails with Eof.
C13_DynamicDispatch ==
  (op = "from_value" /\ arg.ty.t \notin {"option", "enum", "newtype_struct"}) =>
    /\ DeserializerCall(arg.ty, Deserializer_from(arg.val)) = DispatchOf(arg.val)
    /\ ret = Visit(arg.ty, DispatchOf(arg.val))
    /\ arg.ty = TValue => ret = Ok([kind |-> "value", v |-> arg.val])
    /\ DeserializerCall(arg.ty, [value |-> None_]) = [call |-> "none", err |-> Eof]
    /\ Deserialize(arg.ty, [value |-> None_]) = Err(Eof)

C13_Witness ==
  /\ op = "from_value"
  /\ arg.ty = TValue
  /\ arg.val = UserObject
  /\ ret = Ok([kind |-> "value", v |-> UserObject])

(***************************************************************************)
(* The access objects and the map serializer under arbitrary call          *)
(* sequences.  recv is the receiver (`&mut self`), calls the calls made so *)
(* far with their seeds or arguments and how each came out.                *)
(***************************************************************************)
MaxCalls == 4

AccessArrays ==
  { Array(<<>>), Array(<<Boolean(TRUE)>>),
    Array(<<Integer(I64(1)), Boolean(TRUE)>>),
    Array(<<Boolean(TRUE), Boolean(FALSE), Integer(I64(7))>>) }
AccessObjects ==
  { Object({}), UserObject,
    Object({Entry("a", Boolean(TRUE)), Entry("b", Boolean(FALSE))}),
    Object({Entry("a", Boolean(TRUE)), Entry("b", Integer(I64(7))),
            Entry("x", Null)}) }
ElementSeeds == {TValue, TBool}
KeySeeds == {TString, TI32}
ValueSeeds == {TValue, TBool}

BadKeyMap == [kind |-> "map", m |-> <<[key |-> I32(7), val |-> [kind |-> "bool", b |-> TRUE]]>>]
GivenKeys == {[kind |-> "str", s |-> "a"], [kind |-> "str", s |-> "b"], I32(7)}
GivenMapValues == {[kind |-> "bool", b |-> TRUE], [kind |-> "bool", b |-> FALSE], BadKeyMap}

AccessInputs ==
  {[src |-> "seq_access", val |-> v] : v \in AccessArrays}
    \cup {[src |-> "map_access", val |-> v] : v \in AccessObjects}
    \cup {[src |-> "map_serializer"]}

\* the receiver as the code builds it: deserialize_any's Array and Object
\* arms, and Serializer::serialize_map
AccessInit ==
  /\ hashOrder \in HashOrders
  /\ input \in AccessInputs
  /\ op = "none"
  /\ arg = [src |-> "none"]
  /\ ret = [unset |-> TRUE]
  /\ calls = <<>>
  /\ recv = CASE input.src = "seq_access" ->
                   deserialize_any(Deserializer_from(input.val)).seq
              [] input.src = "map_access" ->
                   deserialize_any(Deserializer_from(input.val)).map
              [] input.src = "map_serializer" -> serialize_map.val

\* what the caller gets back from a call on `&mut self`
Returned(r) == IF r.ok THEN (IF "val" \in DOMAIN r THEN Ok(r.val) ELSE Ok([kind |-> "unit"]))
               ELSE Err(r.err)
\* "entry" for Ok(Some(_)), "none" for Ok(None), "value" for Ok(v), "err"
Outcome(m, r) ==
  IF ~r.ok THEN "err"
  ELSE IF m \in {"next_element", "next_key"}
       THEN (IF r.val.some THEN "entry" ELSE "none")
  ELSE "value"

Called(m, a, r) ==
  /\ op' = m
  /\ arg' = a
  /\ ret' = Returned(r)
  /\ recv' = r.self
  /\ calls' = Append(calls, [m |-> m, arg |-> a, out |-> Outcome(m, r)])
  /\ UNCHANGED <<hashOrder, input>>

\* SeqAccess::next_element_seed
NextElement ==
  /\ input.src = "seq_access"
  /\ Len(calls) < MaxCalls
  /\ \E seed \in ElementSeeds :
       Called("next_element", [seed |-> seed],
              SeqDeserializer_next_element_seed(recv, seed))

\* MapAccess::next_key_seed
NextKey ==
  /\ input.src = "map_access"
  /\ Len(calls) < MaxCalls
  /\ \E seed \in KeySeeds :
       Called("next_key", [seed |-> seed],
              MapDeserializer_next_key_seed(recv, seed))

\* MapAccess::next_value_seed
NextValue ==
  /\ input.src = "map_access"
  /\ Len(calls) < MaxCalls
  /\ \E seed \in ValueSeeds :
       Called("next_value", [seed |-> seed],
              MapDeserializer_next_value_seed(recv, seed))

\* SerializeMap::serialize_key
SerializeKey ==
  /\ input.src = "map_serializer"
  /\ op # "end"
  /\ Len(calls) < MaxCalls
  /\ \E key \in GivenKeys :
       Called("serialize_key", [key |-> key],
              MapSerializer_serialize_key(recv, key))

\* SerializeMap::serialize_value
SerializeValue ==
  /\ input.src = "map_serializer"
  /\ op # "end"
  /\ Len(calls) < MaxCalls
  /\ \E value \in GivenMapValues :
       Called("serialize_value", [value |-> value],
              MapSerializer_serialize_value(recv, value))

\* SerializeMap::end takes self by value: no call follows it
End ==
  /\ input.src = "map_serializer"
  /\ op # "end"
  /\ op' = "end"
  /\ arg' = [src |-> "none"]
  /\ ret' = MapSerializer_end(recv)
  /\ UNCHANGED <<hashOrder, input, calls, recv>>

AccessNext ==
  \/ NextElement
  \/ NextKey
  \/ NextValue
  \/ SerializeKey
  \/ SerializeValue
  \/ End

AccessSpec == AccessInit /\ [][AccessNext]_vars

\* the calls before the last one
Front(h) == SubSeq(h, 1, Len(h) - 1)
\* how many next_key calls took an entry from the iterator: those that
\* returned it and those that failed on decoding its key
TakenCount(h) ==
  Cardinality({j \in 1..Len(h) : h[j].m = "next_key" /\ h[j].out # "none"})
\* a next_key call with one of the outcomes, and no next_value after it
PendingSince(h, outs) ==
  \E j \in 1..Len(h) :
    /\ h[j].m = "next_key"
    /\ h[j].out \in outs
    /\ \A i \in (j + 1)..Len(h) : h[i].m # "next_value"
\* the entry the most recent taking next_key call took
LastTaken(h) == Map_into_iter(input.val.o)[TakenCount(h)]

\* C14 as stated: next_value returns a value only if a next_key call
\* returned an entry since the previous next_value, and fails with Eof
\* otherwise; values handed out never outnumber the entries returned; a
\* key is decoded from the String of the entry's key.
C14_Original ==
  input.src = "map_access" =>
    /\ op = "next_value" =>
         /\ ret.ok => PendingSince(Front(calls), {"entry"})
         /\ ~PendingSince(Front(calls), {"entry"}) => ret = Err(Eof)
    /\ Cardinality({j \in 1..Len(calls) : calls[j].out = "value"})
         <= Cardinality({j \in 1..Len(calls) : calls[j].out = "entry"})

\* C14 amended: next_value fails with Eof exactly when no next_key call
\* has taken an entry since the previous next_value, where a next_key call
\* takes an entry when it returns it and also when it fails on decoding
\* the entry's key; otherwise next_value decodes the value of the entry
\* taken last; values handed out never outnumber the entries taken; a key
\* is decoded from the String of the entry's key, and next_key returns
\* none exactly when every entry has been taken.
C14_MapAccessProtocol ==
  input.src = "map_access" =>
    /\ op = "next_value" =>
         IF PendingSince(Front(calls), {"entry", "err"})
         THEN ret = Deserialize(arg.seed, Deserializer_from(LastTaken(calls).v))
         ELSE ret = Err(Eof)
    /\ Cardinality({j \in 1..Len(calls) : calls[j].m = "next_value" /\ calls[j].out # "err"})
         <= TakenCount(calls)
    /\ op = "next_key" =>
         IF TakenCount(Front(calls)) = Cardinality(input.val.o)
         THEN ret = Ok(None_)
         ELSE LET d == Deserialize(arg.seed,
                                   Deserializer_from(String(LastTaken(calls).k)))
              IN ret = IF d.ok THEN Ok(Some(d.val)) ELSE d

C14_Witness ==
  /\ input.src = "map_access"
  /\ input.val = UserObject
  /\ Len(calls) = 3
  /\ calls[1].m = "next_key" /\ calls[1].out = "err"
  /\ calls[2].m = "next_value" /\ calls[2].out = "value"
  /\ op = "next_value"
  /\ ret = Err(Eof)

\* C15: under a tuple-like case a payload that is not an Array fails
\* with an Expected error made of "expected a tuple" and the payload's
\* type label, and under a struct-like case a payload that is not an
\* Object fails with "expected a struct" and the label, the visitor not
\* being called in either; an Array, respectively an Object, goes to the
\* visitor.
C15_VariantPayloadShape ==
  (op = "from_value" /\ arg.ty = TCmd /\ arg.val.tag = "Object"
     /\ Cardinality(arg.val.o) = 1) =>
    LET en == OnlyEntry(arg.val)
        tuple == VariantDeserializer_tuple_variant([val |-> Some(en.v)])
        struct == VariantDeserializer_struct_variant([val |-> Some(en.v)])
    IN /\ en.k = "Pair" =>
            IF en.v.tag = "Array" THEN tuple.call \in {"visit_seq", "visit_unit"}
            ELSE /\ tuple.call = "none"
                 /\ ~ret.ok
                 /\ ret.err.e = "Expected"
                 /\ {ret.err.exp, ret.err.found}
                      = {"expected a tuple", error_description(en.v)}
       /\ en.k = "Move" =>
            IF en.v.tag = "Object" THEN struct.call = "visit_map"
            ELSE /\ struct.call = "none"
                 /\ ~ret.ok
                 /\ ret.err.e = "Expected"
                 /\ {ret.err.exp, ret.err.found}
                      = {"expected a struct", error_description(en.v)}

C15_Witness ==
  /\ op = "from_value"
  /\ arg.ty = TCmd
  /\ arg.val = Object({Entry("Move", Array(<<Integer(I64(1)), Integer(I64(2))>>))})
  /\ ret = Err(Expected("type array", "expected a struct"))

\* the kind of the case of T that is called name, "unknown" if none is
VariantKind(T, name) ==
  IF \E j \in 1..Len(T.variants) : T.variants[j].name = name
  THEN T.variants[CHOOSE j \in 1..Len(T.variants) : T.variants[j].name = name].kind
  ELSE "unknown"

\* C16: an enum decoded from a bare String has no payload: a unit case
\* succeeds, a newtype, tuple or struct case fails with Eof; decoded from
\* a single-key Object, a unit case succeeds whatever the payload is.
C16_VariantPayloadPresence ==
  (op = "from_value" /\ arg.ty.t = "enum") =>
    /\ (arg.val.tag = "String" /\ VariantKind(arg.ty, arg.val.s) = "unit") =>
         ret = Ok([kind |-> "unit_variant", variant |-> arg.val.s])
    /\ (arg.val.tag = "String"
          /\ VariantKind(arg.ty, arg.val.s) \in {"newtype", "tuple", "struct"}) =>
         ret = Err(Eof)
    /\ (arg.val.tag = "Object" /\ Cardinality(arg.val.o) = 1
          /\ VariantKind(arg.ty, OnlyEntry(arg.val).k) = "unit") =>
         ret = Ok([kind |-> "unit_variant", variant |-> OnlyEntry(arg.val).k])

C16_Witness ==
  /\ op = "from_value"
  /\ arg.ty = TCmd
  /\ arg.val = Object({Entry("Quit", Integer(I64(7)))})
  /\ ret = Ok([kind |-> "unit_variant", variant |-> "Quit"])

\* how many next_element / next_key calls took an element or entry from
\* the container (returned it, or failed while decoding it)
Consumed(h) ==
  Cardinality({j \in 1..Len(h) :
                 h[j].m \in {"next_element", "next_key"} /\ h[j].out # "none"})
ContainerLen == IF input.src = "seq_access" THEN Len(input.val.a)
                ELSE Cardinality(input.val.o)

\* how many next_element / next_key calls returned an element or a key
Yielded(h) ==
  Cardinality({j \in 1..Len(h) :
                 h[j].m \in {"next_element", "next_key"} /\ h[j].out = "entry"})

\* C17 as stated: size_hint is the container's length less the elements
\* (keys) yielded to the caller so far.
C17_Original ==
  input.src \in {"seq_access", "map_access"} =>
    (IF input.src = "seq_access" THEN SeqDeserializer_size_hint(recv)
     ELSE MapDeserializer_size_hint(recv)) = Some(ContainerLen - Yielded(calls))

\* C17 (amended): size_hint of the sequence decoder and of the map decoder is the
\* container's length less the elements (entries) taken so far, returned
\* or failed in decoding, which is what is left in the iterator; it starts at the length, and when it is
\* 0 a next_element / next_key call returns none and leaves it at 0.
C17_RemainingLength ==
  input.src \in {"seq_access", "map_access"} =>
    LET hint == IF input.src = "seq_access" THEN SeqDeserializer_size_hint(recv)
                ELSE MapDeserializer_size_hint(recv)
    IN /\ hint = Some(ContainerLen - Consumed(calls))
       /\ hint = Some(Len(recv.iter))
       /\ calls = <<>> => hint = Some(ContainerLen)
       /\ (op \in {"next_element", "next_key"}
             /\ Consumed(Front(calls)) = ContainerLen) =>
            /\ ret = Ok(None_)
            /\ hint = Some(0)
       /\ (op \in {"next_element", "next_key"} /\ ret.ok /\ ret.val.some) =>
            Consumed(calls) = Consumed(Front(calls)) + 1

C17_Witness ==
  /\ input.src = "seq_access"
  /\ Len(input.val.a) = 3
  /\ Len(calls) = 4
  /\ calls[2].out = "entry"
  /\ calls[3].out = "err"
  /\ op = "next_element"
  /\ ret = Ok(None_)
  /\ SeqDeserializer_size_hint(recv) = Some(0)

\* the key a serialize_value call would store under after the calls h: the
\* key of the most recent successful serialize_key, unless a serialize_value
\* came after it
RECURSIVE PendingKey(_)
PendingKey(h) ==
  IF h = <<>> THEN None_
  ELSE IF h[Len(h)].m = "serialize_value" THEN None_
  ELSE IF h[Len(h)].m = "serialize_key" /\ h[Len(h)].out = "value"
       THEN Some(h[Len(h)].arg.key.s)
  ELSE PendingKey(Front(h))
KeyOr(k) == IF k.some THEN k.x ELSE ""
\* the entries stored by the calls h, a later entry replacing an earlier one
\* with the same key
RECURSIVE StoredBy(_)
StoredBy(h) ==
  IF h = <<>> THEN {}
  ELSE IF h[Len(h)].m = "serialize_value" /\ h[Len(h)].out = "value"
       THEN {en \in StoredBy(Front(h)) : en.k # KeyOr(PendingKey(Front(h)))}
              \cup {Entry(KeyOr(PendingKey(Front(h))),
                          Serialize(h[Len(h)].arg.value).val)}
  ELSE StoredBy(Front(h))
UniqueKeys(m) == \A e1, e2 \in m : e1.k = e2.k => e1 = e2

\* C18: over any sequence of serialize_key / serialize_value calls on the
\* map serializer, each serialize_value stores its Value under the key of
\* the most recent successful serialize_key and consumes that key; with no
\* pending key it stores under the empty string and succeeds; a failed
\* serialize_key leaves the stored entries unchanged; a later entry with a
\* key already present replaces the earlier one, and end() returns an
\* Object of the stored entries, whose keys are unique.
C18_KeyValuePairing ==
  input.src = "map_serializer" =>
    /\ recv.inner = StoredBy(calls)
    /\ recv.next_key = PendingKey(calls)
    /\ UniqueKeys(recv.inner)
    /\ (op = "serialize_value" /\ ret.ok) =>
         /\ recv.next_key = None_
         /\ Entry(KeyOr(PendingKey(Front(calls))), Serialize(arg.value).val)
              \in recv.inner
    /\ (op = "serialize_value" /\ PendingKey(Front(calls)) = None_
          /\ Serialize(arg.value).ok) =>
         /\ ret.ok
         /\ Entry("", Serialize(arg.value).val) \in recv.inner
    /\ (op = "serialize_key" /\ ~ret.ok) =>
         /\ recv.inner = StoredBy(Front(calls))
         /\ recv.next_key = PendingKey(Front(calls))
    /\ op = "end" =>
         /\ ret = Ok(Object(StoredBy(calls)))
         /\ UniqueKeys(ret.val.o)

C18_Witness ==
  /\ input.src = "map_serializer"
  /\ Len(calls) = 4
  /\ calls[1].m = "serialize_value"
  /\ calls[2] = [m |-> "serialize_key", arg |-> [key |-> [kind |-> "str", s |-> "a"]],
                 out |-> "value"]
  /\ calls[3] = [m |-> "serialize_key", arg |-> [key |-> I32(7)], out |-> "err"]
  /\ calls[4].m = "serialize_value"
  /\ op = "end"
  /\ ret = Ok(Object({Entry("", Boolean(TRUE)), Entry("a", Boolean(FALSE))}))

\* C19: the decoder reports the same representation mode as the encoder
\* (not human readable), so an Ipv4Addr, which picks its compact or its
\* text form from that flag, is read back from what to_value made of it.
C19_ModeAgreement ==
  (op = "from_value" /\ arg.src = "to_value" /\ arg.ty = TIpv4) =>
    /\ Deserializer_is_human_readable = Serializer_is_human_readable
    /\ ret = Ok(input.v)

====
